---- MODULE Spec2Model ----
(***************************************************************************)
(* Room-availability engine of NST-SPACES (src/app/src/lib/room-finder.ts) *)
(* and its caller in the rooms API route (src/app/src/app/api/rooms).      *)
(*                                                                         *)
(* A string is a sequence of one-character strings, so that "09:00" is     *)
(* <<"0","9",":","0","0">> and parsing and formatting are computed, not    *)
(* assumed.  An optional argument is a set with no or one element.         *)
(***************************************************************************)
EXTENDS Integers, Sequences, FiniteSets, TLC

VARIABLES
    occupiedSlots,   \* findFreeSlots: the argument list of TimeSlot
    mergedOccupied,  \* findFreeSlots: the local mergedOccupied after the merge loop
    freeSlots,       \* findFreeSlots: the returned list
    slotsPc,         \* "ready" before the call, "done" after it
    schedules,       \* the RoomSchedule[] snapshot the caller holds
    passed,          \* the list handed to findFreeRooms by the last call
    mergedMap,       \* findFreeRooms: the Map merged built by mergeRoomSchedules
    day,             \* findFreeRooms: day
    targetTime,      \* findFreeRooms: targetTime?  ({} = not given)
    minDuration,     \* findFreeRooms: minDuration? ({} = not given)
    freeRooms,       \* findFreeRooms: the returned list
    roomsPc,         \* "ready", "direct" (findFreeRooms called), "route" (called by
                     \* GET), "freeNow" (called by getFreeNow), "threw" (findFreeRooms
                     \* left by a TypeError), "completed" (getCompleteSchedules called),
                     \* "checked" (GET past hasScheduleData, before the cache load)
    now,             \* the instant new Date() gives when the call begins, in
                     \* Asia/Kolkata: weekday 0 (Sunday) to 6, minutes since midnight
    freeNow,         \* GET: the freeNow parameter was 'true'
    timeArg,         \* timeToMinutes: the argument time
    timeResult,      \* timeToMinutes: {the returned value}; {} if it did not return
    minutesArg,      \* minutesToTime: the argument minutes
    minutesResult,   \* minutesToTime: the returned string
    timePc,          \* "ready", "parsed" (timeToMinutes called), "formatted"
    instant,         \* the instant new Date() gives, in UTC: weekday 0 (Sunday) to 6,
                     \* minutes since midnight
    currentDay,      \* getCurrentDay: the returned string
    currentTime,     \* getCurrentTime: the returned string
    dayPc,           \* "ready", "day" (getCurrentDay called), "time"
    calls,           \* the findFreeRooms calls in flight on the shared list, per
                     \* caller: its arguments, its locals and its position
    env,             \* middleware: process.env, an unset variable is {}
    request,         \* middleware: pathname and error parameter of request.nextUrl
    session,         \* middleware: {the user supabase.auth.getUser() gives}, {} = none
    response,        \* middleware: the returned response
    authPc,          \* "ready", "done" (middleware has returned)
    hasData,         \* GET: const hasData, the result of hasScheduleData()
    loaded,          \* GET: const rawSchedules, the result of getSchedulesFromCache()
    reply,           \* GET: the JSON of the response: success, data and meta.hasData
    imports          \* the importScheduleData calls in flight, per caller: its
                     \* arguments, its locals and its position

slotVars == <<occupiedSlots, mergedOccupied, freeSlots, slotsPc>>
clockVars == <<now, freeNow>>
roomVars ==
    <<schedules, passed, mergedMap, day, targetTime, minDuration, freeRooms, roomsPc,
      clockVars>>
timeVars == <<timeArg, timeResult, minutesArg, minutesResult, timePc>>
dayVars == <<instant, currentDay, currentTime, dayPc>>
callVars == <<calls>>
authVars == <<env, request, session, response, authPc>>
cacheVars == <<hasData, loaded, reply, imports>>
restVars == <<dayVars, callVars, authVars, cacheVars>>
vars == <<slotVars, roomVars, timeVars, restVars>>

-----------------------------------------------------------------------------
(* Bounds of the model *)

\* longest occupied list handed to findFreeSlots
MaxSlots == 2
\* longest occupied list that is reordered, merged again or stripped of a slot
MaxReordered == 3
\* most RoomSchedule records in the list handed to findFreeRooms directly
MaxRecords == 2
\* most RoomSchedule records in the schedule cache that GET /api/rooms reads
MaxCached == 2
\* most RoomSchedule records in a list with occupied slots across the window ends
MaxEdgeRecords == 2
\* most RoomSchedule records in the list or cache of a query for the current time
MaxNowRecords == 2
\* most minutes that pass between two readings of the clock in one call
MaxLag == 1
\* most findFreeRooms calls in flight on one list
MaxCallers == 2
\* most records in a list that may hold records and slots with a field missing
MaxLooseRecords == 2
\* most records in a list handed to getCompleteSchedules on its own
MaxKeyRecords == 3
\* most records in the schedule cache while it may be cleared under a GET
MaxClearCached == 1
\* most importScheduleData calls in flight on the cache file
MaxImporters == 2
\* largest hour and minute field of the HH:mm strings given to timeToMinutes
MaxHour == 24
MaxMinute == 60
\* largest argument of minutesToTime
MaxMinutesArg == 1440

-----------------------------------------------------------------------------
(* Strings *)

DigitChars == <<"0", "1", "2", "3", "4", "5", "6", "7", "8", "9">>

\* the value of each decimal digit character
DigitValue == [c \in {DigitChars[d] : d \in 1..10} |-> (CHOOSE d \in 1..10 : DigitChars[d] = c) - 1]

DigitVal(c) == DigitValue[c]

\* NaN: what Number gives for a string that is no numeral and what arithmetic on
\* undefined gives.  Every number the model computes is >= 0, so NaN is kept apart
\* from all of them; comparisons and arithmetic treat it as JavaScript does.
NaN == -1

\* the value of a string of decimal digits (0 for the empty string)
RECURSIVE DecimalValue(_)
DecimalValue(s) ==
    IF s = <<>> THEN 0
    ELSE DecimalValue(SubSeq(s, 1, Len(s) - 1)) * 10 + DigitVal(s[Len(s)])

\* Number(s) for a string of digits and letters: Number("") is 0, a string of
\* digits has its decimal value, a string with any other character is NaN
Number(s) ==
    IF \A i \in 1..Len(s) : s[i] \in DOMAIN DigitValue THEN DecimalValue(s) ELSE NaN

\* a < b and a >= b of JavaScript: false when either side is NaN
JsLess(a, b) == a /= NaN /\ b /= NaN /\ a < b
JsGreaterEq(a, b) == a /= NaN /\ b /= NaN /\ a >= b

\* Number.prototype.toString of a non-negative integer
RECURSIVE NumToString(_)
NumToString(n) ==
    IF n < 10 THEN <<DigitChars[n + 1]>>
    ELSE NumToString(n \div 10) \o <<DigitChars[(n % 10) + 1]>>

\* no padding at all
PadStart2_None(s) == s

\* String.prototype.padStart(2, '0')
PadStart2(s) == IF Len(s) >= 2 THEN s ELSE IF Len(s) = 1 THEN <<"0">> \o s ELSE <<"0", "0">>

\* String.prototype.split(':')
RECURSIVE SplitColon(_)
SplitColon(s) ==
    IF \E i \in 1..Len(s) : s[i] = ":"
    THEN LET i == CHOOSE k \in 1..Len(s) :
                     s[k] = ":" /\ \A j \in 1..(k - 1) : s[j] /= ":"
         IN  <<SubSeq(s, 1, i - 1)>> \o SplitColon(SubSeq(s, i + 1, Len(s)))
    ELSE <<s>>

-----------------------------------------------------------------------------
(* Time utilities *)

\* const [hours, minutes] = time.split(':').map(Number); return hours * 60 + minutes
\* (without a second part minutes is undefined, and the sum is NaN)
timeToMinutes(time) ==
    LET parts   == SplitColon(time)
        hours   == Number(parts[1])
        minutes == IF Len(parts) >= 2 THEN Number(parts[2]) ELSE NaN
    IN  IF hours = NaN \/ minutes = NaN THEN NaN ELSE hours * 60 + minutes

\* the hour on a twelve-hour clock
minutesToTime_TwelveHour(minutes) ==
    LET hours == (minutes \div 60) % 12
        mins  == minutes % 60
    IN  PadStart2(NumToString(hours)) \o <<":">> \o PadStart2(NumToString(mins))

minutesToTime(minutes) ==
    LET hours == minutes \div 60
        mins  == minutes % 60
    IN  PadStart2(NumToString(hours)) \o <<":">> \o PadStart2(NumToString(mins))

Max(a, b) == IF a >= b THEN a ELSE b
Min(a, b) == IF a <= b THEN a ELSE b

\* OPERATING_HOURS of @/types
OPERATING_HOURS ==
    [start |-> <<"0", "9", ":", "0", "0">>, end |-> <<"1", "9", ":", "3", "0">>]

TimeSlot(s, e) == [start |-> s, end |-> e]

-----------------------------------------------------------------------------
(* findFreeSlots *)

\* [...occupiedSlots].sort((a, b) => timeToMinutes(a.start) - timeToMinutes(b.start)):
\* the sort is stable, so a slot goes behind every slot whose start is not later
RECURSIVE InsertByStart(_, _)
InsertByStart(sorted, slot) ==
    IF sorted = <<>> THEN <<slot>>
    ELSE IF timeToMinutes(sorted[Len(sorted)].start) - timeToMinutes(slot.start) <= 0
         THEN Append(sorted, slot)
         ELSE Append(InsertByStart(SubSeq(sorted, 1, Len(sorted) - 1), slot),
                     sorted[Len(sorted)])

\* no sort: the slots are merged in the order given
SortByStart_None(slots) == slots

\* the sort with the comparator turned round: latest start first
RECURSIVE SortByStart_Descending(_)
SortByStart_Descending(slots) ==
    IF slots = <<>> THEN <<>>
    ELSE LET rest == SortByStart_Descending(SubSeq(slots, 1, Len(slots) - 1))
             slot == slots[Len(slots)]
             k    == Cardinality({i \in 1..Len(rest) :
                         timeToMinutes(rest[i].start) >= timeToMinutes(slot.start)})
         IN  SubSeq(rest, 1, k) \o <<slot>> \o SubSeq(rest, k + 1, Len(rest))

RECURSIVE SortByStart(_)
SortByStart(slots) ==
    IF slots = <<>> THEN <<>>
    ELSE InsertByStart(SortByStart(SubSeq(slots, 1, Len(slots) - 1)), slots[Len(slots)])

\* the skip test with > for >=: an empty slot is kept
SkipsSlot_InvertedOnly(slotStart, slotEnd) == slotStart > slotEnd

\* if (slotStart >= slotEnd) continue
SkipsSlot(slotStart, slotEnd) == slotStart >= slotEnd

\* the merge test with strict overlap only: touching slots stay apart
MergesIntoLast_Strict(slotStart, lastEnd) == slotStart < lastEnd

\* if (slotStart <= lastEnd): the slot goes into the last merged slot
MergesIntoLast(slotStart, lastEnd) == slotStart <= lastEnd

\* the extension without Math.max: a slot inside the last one shortens it
ExtendedEnd_NoMax(lastEnd, slotEnd) == minutesToTime(slotEnd)

\* last.end = minutesToTime(Math.max(lastEnd, slotEnd))
ExtendedEnd(lastEnd, slotEnd) == minutesToTime(Max(lastEnd, slotEnd))

\* the loop body without Math.max and Math.min: the slot is taken as it is
MergeStep_NoClip(merged, slot, startMinutes, endMinutes) ==
    LET slotStart == timeToMinutes(slot.start)
        slotEnd   == timeToMinutes(slot.end)
    IN  IF SkipsSlot(slotStart, slotEnd) THEN merged
        ELSE IF Len(merged) = 0
             THEN Append(merged, TimeSlot(minutesToTime(slotStart), minutesToTime(slotEnd)))
             ELSE LET last    == merged[Len(merged)]
                      lastEnd == timeToMinutes(last.end)
                  IN  IF MergesIntoLast(slotStart, lastEnd)
                      THEN [merged EXCEPT ![Len(merged)].end = ExtendedEnd(lastEnd, slotEnd)]
                      ELSE Append(merged,
                                  TimeSlot(minutesToTime(slotStart), minutesToTime(slotEnd)))

\* the loop body pushing the slot object itself where the code pushes a new object
MergeStep_PushSlot(merged, slot, startMinutes, endMinutes) ==
    LET slotStart == Max(timeToMinutes(slot.start), startMinutes)
        slotEnd   == Min(timeToMinutes(slot.end), endMinutes)
    IN  IF SkipsSlot(slotStart, slotEnd) THEN merged
        ELSE IF Len(merged) = 0
             THEN Append(merged, slot)
             ELSE LET last    == merged[Len(merged)]
                      lastEnd == timeToMinutes(last.end)
                  IN  IF MergesIntoLast(slotStart, lastEnd)
                      THEN [merged EXCEPT ![Len(merged)].end = ExtendedEnd(lastEnd, slotEnd)]
                      ELSE Append(merged, slot)

\* the loop body pushing the slot object itself as the first element of
\* mergedOccupied
MergeStep_PushFirst(merged, slot, startMinutes, endMinutes) ==
    LET slotStart == Max(timeToMinutes(slot.start), startMinutes)
        slotEnd   == Min(timeToMinutes(slot.end), endMinutes)
    IN  IF SkipsSlot(slotStart, slotEnd) THEN merged
        ELSE IF Len(merged) = 0
             THEN Append(merged, slot)
             ELSE LET last    == merged[Len(merged)]
                      lastEnd == timeToMinutes(last.end)
                  IN  IF MergesIntoLast(slotStart, lastEnd)
                      THEN [merged EXCEPT ![Len(merged)].end = ExtendedEnd(lastEnd, slotEnd)]
                      ELSE Append(merged,
                                  TimeSlot(minutesToTime(slotStart), minutesToTime(slotEnd)))

\* one iteration of the merge loop for (const slot of sorted)
MergeStep(merged, slot, startMinutes, endMinutes) ==
    LET slotStart == Max(timeToMinutes(slot.start), startMinutes)
        slotEnd   == Min(timeToMinutes(slot.end), endMinutes)
    IN  IF SkipsSlot(slotStart, slotEnd) THEN merged
        ELSE IF Len(merged) = 0
             THEN Append(merged, TimeSlot(minutesToTime(slotStart), minutesToTime(slotEnd)))
             ELSE LET last    == merged[Len(merged)]
                      lastEnd == timeToMinutes(last.end)
                  IN  IF MergesIntoLast(slotStart, lastEnd)
                      THEN [merged EXCEPT ![Len(merged)].end = ExtendedEnd(lastEnd, slotEnd)]
                      ELSE Append(merged,
                                  TimeSlot(minutesToTime(slotStart), minutesToTime(slotEnd)))

RECURSIVE MergeLoop(_, _, _)
MergeLoop(sorted, startMinutes, endMinutes) ==
    IF sorted = <<>> THEN <<>>
    ELSE MergeStep(MergeLoop(SubSeq(sorted, 1, Len(sorted) - 1), startMinutes, endMinutes),
                   sorted[Len(sorted)], startMinutes, endMinutes)

\* the local mergedOccupied of findFreeSlots when the merge loop has ended
MergedOccupied(slots, operatingStart, operatingEnd) ==
    MergeLoop(SortByStart(slots), timeToMinutes(operatingStart), timeToMinutes(operatingEnd))

\* the gap test with <= for <: an empty free slot is pushed where nothing is free
GapBefore_OrEqual(currentStart, occStart) == currentStart <= occStart

\* if (currentStart < occStart): a free slot lies before the occupied one
GapBefore(currentStart, occStart) == currentStart < occStart

\* the cursor update with Math.min for Math.max: the cursor never moves forward
AdvancedStart_Min(currentStart, occupiedEnd) == Min(currentStart, timeToMinutes(occupiedEnd))

\* currentStart = Math.max(currentStart, timeToMinutes(occupied.end))
AdvancedStart(currentStart, occupiedEnd) == Max(currentStart, timeToMinutes(occupiedEnd))

\* one iteration of the inversion loop; the loop state is <<freeSlots, currentStart>>
InvertStep(st, occupied) ==
    LET occStart == timeToMinutes(occupied.start)
        free     == IF GapBefore(st[2], occStart)
                    THEN Append(st[1], TimeSlot(minutesToTime(st[2]), occupied.start))
                    ELSE st[1]
    IN  <<free, AdvancedStart(st[2], occupied.end)>>

RECURSIVE InvertLoop(_, _)
InvertLoop(merged, startMinutes) ==
    IF merged = <<>> THEN <<<<>>, startMinutes>>
    ELSE InvertStep(InvertLoop(SubSeq(merged, 1, Len(merged) - 1), startMinutes),
                    merged[Len(merged)])

\* the free slots findFreeSlots derives from its merged occupied list
Invert(merged, operatingStart, operatingEnd) ==
    LET st == InvertLoop(merged, timeToMinutes(operatingStart))
    IN  IF GapBefore(st[2], timeToMinutes(operatingEnd))
        THEN Append(st[1], TimeSlot(minutesToTime(st[2]), operatingEnd))
        ELSE st[1]

findFreeSlots(slots, operatingStart, operatingEnd) ==
    Invert(MergedOccupied(slots, operatingStart, operatingEnd), operatingStart, operatingEnd)

-----------------------------------------------------------------------------
(* A JavaScript Map: a list of <<key, value>> in insertion order *)

MapHas(m, k) == \E i \in 1..Len(m) : m[i][1] = k

MapIndex(m, k) == CHOOSE i \in 1..Len(m) : m[i][1] = k

MapGet(m, k) == m[MapIndex(m, k)][2]

MapSet(m, k, v) ==
    IF MapHas(m, k) THEN [m EXCEPT ![MapIndex(m, k)] = <<k, v>>] ELSE Append(m, <<k, v>>)

-----------------------------------------------------------------------------
(* Room identifiers *)

\* ALL_ROOMS of the rooms route
ALL_ROOMS ==
    <<<<"4", "0", "1">>, <<"4", "0", "2">>, <<"4", "0", "3">>, <<"4", "0", "4">>,
      <<"4", "0", "5">>, <<"5", "0", "1">>, <<"5", "0", "2">>, <<"5", "0", "3">>,
      <<"5", "0", "4">>, <<"5", "0", "5">>>>

\* rooms in the occupancy data: one of ALL_ROOMS and two that are not; as strings
\* "4010" < "402" < "999", as integers 402 < 999 < 4010
RoomInputs == {<<"4", "0", "2">>, <<"4", "0", "1", "0">>, <<"9", "9", "9">>}

\* every room identifier that occurs
RoomIds == RoomInputs \cup {ALL_ROOMS[i] : i \in 1..Len(ALL_ROOMS)}

-----------------------------------------------------------------------------
(* mergeRoomSchedules *)

\* the body with the day's list replaced by the record's list, not extended by it
MergeSchedule_Overwrite(merged, schedule) ==
    LET m1      == IF ~MapHas(merged, schedule.room)
                   THEN MapSet(merged, schedule.room, <<>>)
                   ELSE merged
        roomMap == MapGet(m1, schedule.room)
    IN  MapSet(m1, schedule.room, MapSet(roomMap, schedule.day, schedule.occupied))

\* the body of schedules.forEach(schedule => ...)
MergeSchedule(merged, schedule) ==
    LET m1      == IF ~MapHas(merged, schedule.room)
                   THEN MapSet(merged, schedule.room, <<>>)
                   ELSE merged
        roomMap == MapGet(m1, schedule.room)
        rm1     == IF ~MapHas(roomMap, schedule.day)
                   THEN MapSet(roomMap, schedule.day, <<>>)
                   ELSE roomMap
        rm2     == MapSet(rm1, schedule.day, MapGet(rm1, schedule.day) \o schedule.occupied)
    IN  MapSet(m1, schedule.room, rm2)

\* schedules.forEach over list[lo..hi], in order, starting from the map merged
\* (the range is halved, and the map of the first half is computed before the second
\* half is entered, to keep the evaluation shallow; that map is never empty)
RECURSIVE MergeSchedules(_, _, _, _)
MergeSchedules(merged, list, lo, hi) ==
    IF lo > hi THEN merged
    ELSE IF lo = hi THEN MergeSchedule(merged, list[lo])
    ELSE LET mid  == (lo + hi) \div 2
             left == MergeSchedules(merged, list, lo, mid)
         IN  IF Len(left) = 0 THEN left ELSE MergeSchedules(left, list, mid + 1, hi)

mergeRoomSchedules(list) == MergeSchedules(<<>>, list, 1, Len(list))

-----------------------------------------------------------------------------
(* findFreeRooms *)

\* the digits a string begins with
RECURSIVE LeadingDigits(_)
LeadingDigits(s) ==
    IF s = <<>> \/ s[1] \notin DOMAIN DigitValue THEN <<>>
    ELSE <<s[1]>> \o LeadingDigits(Tail(s))

\* parseInt of a string that begins with a digit
parseInt(s) == Number(LeadingDigits(s))

\* a missing day answered with the first day the room has slots for
OccupiedOn_FirstDay(dayMap, d) == IF MapHas(dayMap, d) THEN MapGet(dayMap, d) ELSE dayMap[1][2]

\* dayMap.get(day) || []
OccupiedOn(dayMap, d) == IF MapHas(dayMap, d) THEN MapGet(dayMap, d) ELSE <<>>

\* the duration test turned round: the long slots are the ones dropped
TooShort_Inverted(duration, minDur) ==
    \E md \in minDur : md /= 0 /\ duration > md

\* if (minDuration && duration < minDuration) continue
TooShort(duration, minDur) ==
    \E md \in minDur : md /= 0 /\ duration < md

\* the target test left out: no slot is dropped for the target
MissesTarget_Ignored(start, end, target) == FALSE

\* the target test with the end included: target > end for target >= end
MissesTarget_EndIncluded(start, end, target) ==
    \E t \in target :
        t /= <<>> /\ (JsLess(timeToMinutes(t), start) \/ JsLess(end, timeToMinutes(t)))

\* if (targetTime) { ...; if (target < start || target >= end) continue }
MissesTarget(start, end, target) ==
    \E t \in target :
        t /= <<>> /\ (JsLess(timeToMinutes(t), start) \/ JsGreaterEq(timeToMinutes(t), end))

FreeRoom(room, d, slot, duration) ==
    [room |-> room, day |-> d, freeFrom |-> slot.start, freeTill |-> slot.end,
     duration |-> duration]

\* the loop left after the first result of a room
RECURSIVE RoomResults_FirstOnly(_, _, _, _, _)
RoomResults_FirstOnly(room, d, free, target, minDur) ==
    IF free = <<>> THEN <<>>
    ELSE LET slot     == free[Len(free)]
             start    == timeToMinutes(slot.start)
             end      == timeToMinutes(slot.end)
             duration == end - start
             before   == RoomResults_FirstOnly(room, d, SubSeq(free, 1, Len(free) - 1),
                                               target, minDur)
         IN  IF before # <<>> \/ TooShort(duration, minDur) \/ MissesTarget(start, end, target)
             THEN before
             ELSE Append(before, FreeRoom(room, d, slot, duration))

\* for (const slot of freeSlots): the results the free slots of one room add
RECURSIVE RoomResults(_, _, _, _, _)
RoomResults(room, d, free, target, minDur) ==
    IF free = <<>> THEN <<>>
    ELSE LET slot     == free[Len(free)]
             start    == timeToMinutes(slot.start)
             end      == timeToMinutes(slot.end)
             duration == end - start
             before   == RoomResults(room, d, SubSeq(free, 1, Len(free) - 1), target, minDur)
         IN  IF TooShort(duration, minDur) \/ MissesTarget(start, end, target)
             THEN before
             ELSE Append(before, FreeRoom(room, d, slot, duration))

\* the loop body with a roster test: rooms outside ALL_ROOMS are passed over
RoomFree_RosterOnly(room, dayMap, d, target, minDur) ==
    IF \E i \in 1..Len(ALL_ROOMS) : ALL_ROOMS[i] = room
    THEN RoomResults(room, d,
                     findFreeSlots(OccupiedOn(dayMap, d),
                                   OPERATING_HOURS.start, OPERATING_HOURS.end),
                     target, minDur)
    ELSE <<>>

\* the body of merged.forEach((dayMap, room) => ...): what one room adds to freeRooms
RoomFree(room, dayMap, d, target, minDur) ==
    RoomResults(room, d,
                findFreeSlots(OccupiedOn(dayMap, d), OPERATING_HOURS.start, OPERATING_HOURS.end),
                target, minDur)

\* merged.forEach over the entries lo..hi of the map, in insertion order
RECURSIVE CollectedRange(_, _, _, _, _, _)
CollectedRange(merged, lo, hi, d, target, minDur) ==
    IF lo > hi THEN <<>>
    ELSE IF lo = hi THEN RoomFree(merged[lo][1], merged[lo][2], d, target, minDur)
    ELSE LET mid == (lo + hi) \div 2
         IN  CollectedRange(merged, lo, mid, d, target, minDur)
                 \o CollectedRange(merged, mid + 1, hi, d, target, minDur)

\* freeRooms before the sort
Collected(merged, d, target, minDur) ==
    CollectedRange(merged, 1, Len(merged), d, target, minDur)

\* parseInt(room) of the room identifiers that occur, each computed once
RoomNumber == [r \in RoomIds |-> parseInt(r)]

\* string a sorts before string b (a.localeCompare(b) < 0, for strings of digits)
LexBefore(a, b) ==
    \E k \in 1..(Min(Len(a), Len(b)) + 1) :
        /\ \A j \in 1..(k - 1) : a[j] = b[j]
        /\ \/ k > Len(a) /\ k <= Len(b)
           \/ k <= Len(a) /\ k <= Len(b) /\ DigitVal(a[k]) < DigitVal(b[k])

\* the comparator with the rooms compared as strings
CompareFreeRooms_Lexicographic(a, b) ==
    IF b.duration /= a.duration THEN b.duration - a.duration
    ELSE IF a.room = b.room THEN 0
    ELSE IF LexBefore(a.room, b.room) THEN -1 ELSE 1

\* the comparator of the final sort
CompareFreeRooms(a, b) ==
    IF b.duration /= a.duration THEN b.duration - a.duration
    ELSE RoomNumber[a.room] - RoomNumber[b.room]

\* freeRooms.sort(comparator): the sort is stable, so an element comes behind those
\* that compare smaller and those that compare equal and stood before it
SortFreeRooms(list) ==
    LET n    == Len(list)
        cmp  == [j \in 1..n |-> [i \in 1..n |-> CompareFreeRooms(list[j], list[i])]]
        rank == [i \in 1..n |->
                    Cardinality({j \in 1..n : cmp[j][i] < 0 \/ (cmp[j][i] = 0 /\ j < i)})]
    IN  [p \in 1..n |-> list[CHOOSE i \in 1..n : rank[i] = p - 1]]

findFreeRooms(list, d, target, minDur) ==
    SortFreeRooms(Collected(mergeRoomSchedules(list), d, target, minDur))

\* the argument handed to findFreeSlots with the default left out: undefined, here
\* no value, for a day the room has no list for
OccupiedArg_NoDefault(dayMap, d) == IF MapHas(dayMap, d) THEN {MapGet(dayMap, d)} ELSE {}

\* the argument handed to findFreeSlots: dayMap.get(day) || [] is always an array
OccupiedArg(dayMap, d) == {OccupiedOn(dayMap, d)}

\* mergeRoomSchedules is left by a TypeError: push(...schedule.occupied) of a record
\* without occupied
ThrowsInMerge(list) == \E i \in 1..Len(list) : "occupied" \notin DOMAIN list[i]

\* findFreeSlots is left by a TypeError: [...occupiedSlots] of undefined, or
\* time.split(':') in timeToMinutes of a slot without start or without end
ThrowsInSlots(arg) ==
    \/ arg = {}
    \/ \E slots \in arg : \E j \in 1..Len(slots) :
           "start" \notin DOMAIN slots[j] \/ "end" \notin DOMAIN slots[j]

\* findFreeRooms(list, d, ...) is left by an error and returns nothing
findFreeRoomsThrows(list, d) ==
    \/ ThrowsInMerge(list)
    \/ LET merged == mergeRoomSchedules(list)
       IN  \E r \in 1..Len(merged) : ThrowsInSlots(OccupiedArg(merged[r][2], d))

-----------------------------------------------------------------------------
(* The current day and time *)

Sun == <<"S", "u", "n">>
Mon == <<"M", "o", "n">>
Tue == <<"T", "u", "e">>
Wed == <<"W", "e", "d">>
Thu == <<"T", "h", "u">>
Thur == <<"T", "h", "u", "r">>
Fri == <<"F", "r", "i">>
Sat == <<"S", "a", "t">>

\* Intl.DateTimeFormat('en-US', { weekday: 'short' }) of weekday 0 to 6
WeekdayShort == <<Sun, Mon, Tue, Wed, Thu, Fri, Sat>>

\* the instant utc in the time zone Asia/Kolkata, five and a half hours ahead
InKolkata(utc) ==
    LET m == utc.minutes + 330
    IN  [weekday |-> (utc.weekday + (m \div 1440)) % 7, minutes |-> m % 1440]

\* getCurrentDay returning the formatted weekday as it is
getCurrentDay_Short(at) == WeekdayShort[at.weekday + 1]

\* getCurrentDay of room-finder.ts, with new Date() giving the instant at
getCurrentDay(at) ==
    LET name == WeekdayShort[at.weekday + 1]
    IN  IF name = Thu THEN Thur ELSE name

\* getCurrentTime, with new Date() giving the instant at: en-GB, two-digit hour of
\* 00 to 23 and two-digit minute
getCurrentTime(at) ==
    PadStart2(NumToString(at.minutes \div 60)) \o <<":">> \o PadStart2(NumToString(at.minutes % 60))

\* the instant lag minutes after at
Tick(at, lag) ==
    LET m == at.minutes + lag
    IN  [weekday |-> (at.weekday + (m \div 1440)) % 7, minutes |-> m % 1440]

\* getCurrentDay of the page: days[new Date().getDay()], Mon at the weekend
PageCurrentDay(at) ==
    LET name == <<Sun, Mon, Tue, Wed, Thur, Fri, Sat>>[at.weekday + 1]
    IN  IF name = Sun \/ name = Sat THEN Mon ELSE name

\* getFreeNow handing on a minimum duration of an hour
FreeNowArguments_AnHour(list, atDay, atTime) ==
    [schedules |-> list, day |-> getCurrentDay(atDay),
     targetTime |-> {getCurrentTime(atTime)}, minDuration |-> {60}]

\* getFreeNow: the arguments of findFreeRooms(schedules, currentDay, currentTime),
\* the day read at atDay and the time at atTime
FreeNowArguments(list, atDay, atTime) ==
    [schedules |-> list, day |-> getCurrentDay(atDay),
     targetTime |-> {getCurrentTime(atTime)}, minDuration |-> {}]

-----------------------------------------------------------------------------
(* GET /api/rooms *)

DAYS == <<Mon, Tue, Wed, Thur>>

RoomSchedule(room, d, occupied) == [room |-> room, day |-> d, occupied |-> occupied]

\* `${room}-${day}`
ScheduleKey(room, d) == room \o <<"-">> \o d

\* for (const schedule of schedules): add existing schedules to the map
RECURSIVE ExistingSchedules(_)
ExistingSchedules(list) ==
    IF list = <<>> THEN <<>>
    ELSE LET scheduleMap == ExistingSchedules(SubSeq(list, 1, Len(list) - 1))
             schedule    == list[Len(list)]
             key         == ScheduleKey(schedule.room, schedule.day)
         IN  IF MapHas(scheduleMap, key)
             THEN LET existing == MapGet(scheduleMap, key)
                  IN  MapSet(scheduleMap, key,
                             [existing EXCEPT !.occupied = existing.occupied \o schedule.occupied])
             ELSE MapSet(scheduleMap, key, schedule)

\* the completion left out: no record is added for a missing room and day
EnsureOne_Skip(scheduleMap, room, d) == scheduleMap

\* if (!scheduleMap.has(key)) scheduleMap.set(key, { room, day, occupied: [] })
EnsureOne(scheduleMap, room, d) ==
    IF ~MapHas(scheduleMap, ScheduleKey(room, d))
    THEN MapSet(scheduleMap, ScheduleKey(room, d), RoomSchedule(room, d, <<>>))
    ELSE scheduleMap

\* for (const room of ALL_ROOMS) for (const day of DAYS): the combinations lo..hi
\* in loop order (halved as in MergeSchedules; the map of a half is never empty)
RECURSIVE EnsureRange(_, _, _)
EnsureRange(scheduleMap, lo, hi) ==
    IF lo > hi THEN scheduleMap
    ELSE IF lo = hi
         THEN EnsureOne(scheduleMap, ALL_ROOMS[((lo - 1) \div Len(DAYS)) + 1],
                        DAYS[((lo - 1) % Len(DAYS)) + 1])
    ELSE LET mid  == (lo + hi) \div 2
             left == EnsureRange(scheduleMap, lo, mid)
         IN  IF Len(left) = 0 THEN left ELSE EnsureRange(left, mid + 1, hi)

EnsureAll(scheduleMap) == EnsureRange(scheduleMap, 1, Len(ALL_ROOMS) * Len(DAYS))

\* Array.from(scheduleMap.values())
MapValues(m) == [i \in 1..Len(m) |-> m[i][2]]

getCompleteSchedules(list) ==
    MapValues(EnsureAll(ExistingSchedules(list)))

-----------------------------------------------------------------------------
(* Inputs of the findFreeSlots runs *)

T0800 == <<"0", "8", ":", "0", "0">>
T0900 == <<"0", "9", ":", "0", "0">>
T0930 == <<"0", "9", ":", "3", "0">>
T1000 == <<"1", "0", ":", "0", "0">>
T1030 == <<"1", "0", ":", "3", "0">>
T1100 == <<"1", "1", ":", "0", "0">>
T1130 == <<"1", "1", ":", "3", "0">>
T1200 == <<"1", "2", ":", "0", "0">>
T1430 == <<"1", "4", ":", "3", "0">>
T1530 == <<"1", "5", ":", "3", "0">>
T1930 == <<"1", "9", ":", "3", "0">>
T2000 == <<"2", "0", ":", "0", "0">>

\* clock times of the occupied slots given to findFreeSlots: before, at and after
\* both ends of the operating window, and four times inside it
SlotTimes == {T0800, T0900, T1000, T1030, T1100, T1200, T1930, T2000}

\* slots that violate start < end: empty at the window start, empty and inverted
\* inside the window, inverted across the whole window
DegenerateSlots ==
    {TimeSlot(T0900, T0900), TimeSlot(T1000, T1000), TimeSlot(T1200, T1000),
     TimeSlot(T2000, T0800)}

\* every slot with start < end over SlotTimes (inside the window, across either end
\* of it, wholly before it, wholly after it, over all of it), and the degenerate ones
SlotInputs ==
    {sl \in {TimeSlot(s, e) : s \in SlotTimes, e \in SlotTimes} :
        timeToMinutes(sl.start) < timeToMinutes(sl.end)} \cup DegenerateSlots

SeqsUpTo(S, n) == UNION {[1..k -> S] : k \in 0..n}

-----------------------------------------------------------------------------
(* Inputs of the findFreeRooms runs *)

RecordDays == {Mon, Tue}

\* occupied lists of one record: none; one slot that leaves free slots of 30 and 300
\* minutes; two slots that leave free slots of 300 and 240 minutes and touch the first
OccupiedInputs ==
    {<<>>,
     <<TimeSlot(T0930, T1430)>>,
     <<TimeSlot(T0900, T0930), TimeSlot(T1430, T1530)>>}

RecordInputs ==
    {RoomSchedule(r, d, o) : r \in RoomInputs, d \in RecordDays, o \in OccupiedInputs}

\* queried days: one with records and one without any
DayInputs == {Mon, Sat}

\* targetTime: not given, the start of a free slot, the end of a free slot
TargetInputs == {{}, {T0930}, {T1430}}

\* minDuration: not given, 120, 250
DurationInputs == {{}, {120}, {250}}

\* records of the schedule cache: a room of ALL_ROOMS and one outside it, on two days
CachedInputs ==
    {RoomSchedule(r, d, o) :
        r \in {<<"4", "0", "2">>, <<"9", "9", "9">>}, d \in RecordDays,
        o \in {<<TimeSlot(T0900, T1130)>>,
               <<TimeSlot(T0900, T0930), TimeSlot(T1430, T1530)>>}}

-----------------------------------------------------------------------------
(* State machine *)

\* Monday 09:30, no GET served
ClockIdle ==
    /\ now = [weekday |-> 1, minutes |-> 570]
    /\ freeNow = FALSE

RoomsIdle ==
    /\ schedules = <<>>
    /\ passed = <<>>
    /\ mergedMap = <<>>
    /\ ClockIdle
    /\ day = Mon
    /\ targetTime = {}
    /\ minDuration = {}
    /\ freeRooms = <<>>
    /\ roomsPc = "ready"

SlotsIdle ==
    /\ occupiedSlots = <<>>
    /\ mergedOccupied = <<>>
    /\ freeSlots = <<>>
    /\ slotsPc = "ready"

TimeIdle ==
    /\ timeArg = T0900
    /\ timeResult = {}
    /\ minutesArg = 0
    /\ minutesResult = <<>>
    /\ timePc = "ready"

DayIdle ==
    /\ instant = [weekday |-> 1, minutes |-> 240]
    /\ currentDay = <<>>
    /\ currentTime = <<>>
    /\ dayPc = "ready"

CallsIdle ==
    /\ calls = <<>>

AuthIdle ==
    /\ env = [NEXT_PUBLIC_SUPABASE_URL |-> {}, NEXT_PUBLIC_SUPABASE_ANON_KEY |-> {},
              ADMIN_EMAIL_DOMAIN |-> {}]
    /\ request = [pathname |-> <<>>, error |-> {}]
    /\ session = {}
    /\ response = [kind |-> "none"]
    /\ authPc = "ready"

CacheIdle ==
    /\ hasData = FALSE
    /\ loaded = <<>>
    /\ reply = [success |-> FALSE]
    /\ imports = <<>>

RestIdle ==
    /\ DayIdle
    /\ CallsIdle
    /\ AuthIdle
    /\ CacheIdle

InitSlots ==
    /\ occupiedSlots \in SeqsUpTo(SlotInputs, MaxSlots)
    /\ mergedOccupied = <<>>
    /\ freeSlots = <<>>
    /\ slotsPc = "ready"
    /\ RoomsIdle
    /\ TimeIdle
    /\ RestIdle

\* a call findFreeSlots(occupiedSlots) with the default operating window
FindFreeSlotsCall ==
    /\ slotsPc = "ready"
    /\ mergedOccupied' =
           MergedOccupied(occupiedSlots, OPERATING_HOURS.start, OPERATING_HOURS.end)
    /\ freeSlots' = Invert(mergedOccupied', OPERATING_HOURS.start, OPERATING_HOURS.end)
    /\ slotsPc' = "done"
    /\ UNCHANGED <<occupiedSlots, roomVars, timeVars, restVars>>

NextSlots == FindFreeSlotsCall

SpecSlots == InitSlots /\ [][NextSlots]_vars

\* longer occupied lists over fewer slots: two of equal start, one inside and one
\* at the end of the first, one across the window start, an inverted and an empty
\* one, one wholly before and one wholly after the window
ReorderSlotInputs ==
    {TimeSlot(T1000, T1200), TimeSlot(T1000, T1030), TimeSlot(T1000, T1100),
     TimeSlot(T1100, T1200), TimeSlot(T0800, T1000), TimeSlot(T1200, T1000),
     TimeSlot(T1000, T1000), TimeSlot(T0800, T0900), TimeSlot(T1930, T2000)}

InitReorder ==
    /\ occupiedSlots \in SeqsUpTo(ReorderSlotInputs, MaxReordered)
    /\ mergedOccupied = <<>>
    /\ freeSlots = <<>>
    /\ slotsPc = "ready"
    /\ RoomsIdle
    /\ TimeIdle
    /\ RestIdle

SpecReorder == InitReorder /\ [][NextSlots]_vars

Init ==
    /\ schedules \in SeqsUpTo(RecordInputs, MaxRecords)
    /\ passed = <<>>
    /\ mergedMap = <<>>
    /\ ClockIdle
    /\ day = Mon
    /\ targetTime = {}
    /\ minDuration = {}
    /\ freeRooms = <<>>
    /\ roomsPc = "ready"
    /\ SlotsIdle
    /\ TimeIdle
    /\ RestIdle

\* a call findFreeRooms(schedules, d, t, md) on the caller's snapshot
FindFreeRoomsCall ==
    /\ roomsPc = "ready"
    /\ passed' = schedules
    /\ mergedMap' = mergeRoomSchedules(schedules)
    /\ \E d \in DayInputs, t \in TargetInputs, md \in DurationInputs :
           /\ day' = d
           /\ targetTime' = t
           /\ minDuration' = md
           /\ freeRooms' = findFreeRooms(schedules, d, t, md)
    /\ roomsPc' = "direct"
    /\ UNCHANGED <<schedules, clockVars, slotVars, timeVars, restVars>>

Next == FindFreeRoomsCall

Spec == Init /\ [][Next]_vars

InitRoute ==
    /\ schedules \in SeqsUpTo(CachedInputs, MaxCached)
    /\ passed = <<>>
    /\ mergedMap = <<>>
    /\ ClockIdle
    /\ day = Mon
    /\ targetTime = {}
    /\ minDuration = {}
    /\ freeRooms = <<>>
    /\ roomsPc = "ready"
    /\ SlotsIdle
    /\ TimeIdle
    /\ RestIdle

\* the day parameter of a custom query: a day of DayInputs or the day the page
\* starts with
DayParamInputs == {{d} : d \in DayInputs} \cup {{PageCurrentDay(now)}}

\* the parameters of a request: as the page sends them, day, time and minDuration
\* or freeNow=true and minDuration; and none at all
QueryInputs ==
    {[freeNow |-> FALSE, day |-> d, time |-> t, minDuration |-> md] :
        d \in DayParamInputs, t \in TargetInputs, md \in DurationInputs}
    \cup {[freeNow |-> TRUE, day |-> {}, time |-> {}, minDuration |-> md] :
              md \in DurationInputs}
    \cup {[freeNow |-> FALSE, day |-> {}, time |-> {}, minDuration |-> {}]}

\* GET /api/rooms with the cache holding schedules: without data the reply is
\* data: [], with data the completed list is searched.  The clock is read for the
\* default day when the request arrives, and with freeNow for the time and, up to
\* lag minutes later, for the day.
RoomsGet ==
    /\ roomsPc = "ready"
    /\ passed' = IF Len(schedules) > 0 THEN getCompleteSchedules(schedules) ELSE <<>>
    /\ mergedMap' = IF Len(schedules) > 0 THEN mergeRoomSchedules(passed') ELSE <<>>
    /\ \E q \in QueryInputs, lag \in 0..MaxLag :
           LET dayParam  == IF q.day = {} THEN getCurrentDay(now)
                            ELSE CHOOSE d \in q.day : TRUE
               target    == IF q.freeNow THEN {getCurrentTime(now)} ELSE q.time
               targetDay == IF q.freeNow THEN getCurrentDay(Tick(now, lag)) ELSE dayParam
           IN  /\ q.freeNow \/ lag = 0
               /\ freeNow' = q.freeNow
               /\ day' = targetDay
               /\ targetTime' = target
               /\ minDuration' = q.minDuration
               /\ freeRooms' = IF Len(schedules) > 0
                                THEN findFreeRooms(passed', targetDay, target, q.minDuration)
                                ELSE <<>>
    /\ roomsPc' = "route"
    /\ UNCHANGED <<schedules, now, slotVars, timeVars, restVars>>

NextRoute == FindFreeRoomsCall \/ RoomsGet

SpecRoute == InitRoute /\ [][NextRoute]_vars

-----------------------------------------------------------------------------
(* Queries for the current time *)

\* records of room 402 on Mon and Thur: a free half hour from 09:00, or free slots
\* of 300 and 240 minutes
NowRecordInputs ==
    {RoomSchedule(<<"4", "0", "2">>, d, o) :
        d \in {Mon, Thur},
        o \in {<<TimeSlot(T0930, T1430)>>,
               <<TimeSlot(T0900, T0930), TimeSlot(T1430, T1530)>>}}

\* Monday, Thursday and Saturday at 09:15, Monday and Saturday at 14:30, Sunday at
\* 23:59
ClockInputs ==
    {[weekday |-> 1, minutes |-> 555], [weekday |-> 4, minutes |-> 555],
     [weekday |-> 6, minutes |-> 555], [weekday |-> 1, minutes |-> 870],
     [weekday |-> 6, minutes |-> 870], [weekday |-> 0, minutes |-> 1439]}

InitNow ==
    /\ schedules \in SeqsUpTo(NowRecordInputs, MaxNowRecords)
    /\ now \in ClockInputs
    /\ freeNow = FALSE
    /\ passed = <<>>
    /\ mergedMap = <<>>
    /\ day = Mon
    /\ targetTime = {}
    /\ minDuration = {}
    /\ freeRooms = <<>>
    /\ roomsPc = "ready"
    /\ SlotsIdle
    /\ TimeIdle
    /\ RestIdle

\* a call getFreeNow(schedules): the day is read first and the time, up to lag
\* minutes later, second
GetFreeNowCall ==
    /\ roomsPc = "ready"
    /\ \E lag \in 0..MaxLag :
           LET args == FreeNowArguments(schedules, now, Tick(now, lag))
           IN  /\ passed' = args.schedules
               /\ day' = args.day
               /\ targetTime' = args.targetTime
               /\ minDuration' = args.minDuration
               /\ mergedMap' = mergeRoomSchedules(args.schedules)
               /\ freeRooms' = findFreeRooms(args.schedules, args.day, args.targetTime,
                                             args.minDuration)
    /\ roomsPc' = "freeNow"
    /\ UNCHANGED <<schedules, clockVars, slotVars, timeVars, restVars>>

NextNow == GetFreeNowCall \/ RoomsGet

SpecNow == InitNow /\ [][NextNow]_vars

-----------------------------------------------------------------------------
(* findFreeRooms at the ends of the operating window, and its argument after *)
(* the call                                                                 *)

\* The TimeSlot objects of the argument are shared: push(...schedule.occupied) puts
\* the objects themselves into the Map's lists, and the merge loop reads them from
\* the sorted copy.  An object of the argument is marked with its place: ref is
\* <<i, j>> for the j-th slot of the i-th record.  The arrays of the Map, sorted,
\* mergedOccupied, freeSlots and freeRooms are created by the call.
WithRefs(list) ==
    [i \in 1..Len(list) |->
        [list[i] EXCEPT !.occupied =
            [j \in 1..Len(list[i].occupied) |->
                [start |-> list[i].occupied[j].start,
                 end   |-> list[i].occupied[j].end,
                 ref   |-> <<i, j>>]]]]

\* the objects of the argument that stand in a mergedOccupied list at the end of
\* the merge loop, as last.end = ... has left them
ObjectsInMerged(list, d) ==
    LET map == mergeRoomSchedules(WithRefs(list))
    IN  UNION {LET mo == MergedOccupied(OccupiedOn(map[r][2], d),
                                        OPERATING_HOURS.start, OPERATING_HOURS.end)
               IN  {mo[k] : k \in {n \in 1..Len(mo) : "ref" \in DOMAIN mo[n]}}
               : r \in 1..Len(map)}

\* the argument as the caller finds it after findFreeRooms(list, d, ...)
AfterCall(list, d) ==
    LET objects == ObjectsInMerged(list, d)
    IN  [i \in 1..Len(list) |->
            [list[i] EXCEPT !.occupied =
                [j \in 1..Len(list[i].occupied) |->
                    IF \E o \in objects : o.ref = <<i, j>>
                    THEN LET o == CHOOSE o \in objects : o.ref = <<i, j>>
                         IN  TimeSlot(o.start, o.end)
                    ELSE list[i].occupied[j]]]]

T2030 == <<"2", "0", ":", "3", "0">>

\* occupied lists: none; across the window start; across the window end; over the
\* whole window and beyond; before and behind the window only; after the window;
\* from the window start
EdgeOccupiedInputs ==
    {<<>>,
     <<TimeSlot(T0800, T0930)>>,
     <<TimeSlot(T1430, T2000)>>,
     <<TimeSlot(T0800, T2000)>>,
     <<TimeSlot(T0800, T0900), TimeSlot(T1930, T2000)>>,
     <<TimeSlot(T2000, T2030)>>,
     <<TimeSlot(T0900, T1030)>>}

EdgeRecordInputs ==
    {RoomSchedule(r, Mon, o) :
        r \in {<<"4", "0", "2">>, <<"5", "0", "1">>}, o \in EdgeOccupiedInputs}

\* targetTime: not given, before the window, its first minute, inside it, its end,
\* after it
EdgeTargetInputs == {{}, {T0800}, {T0900}, {T1030}, {T1930}, {T2000}}

InitEdge ==
    /\ schedules \in SeqsUpTo(EdgeRecordInputs, MaxEdgeRecords)
    /\ passed = <<>>
    /\ mergedMap = <<>>
    /\ ClockIdle
    /\ day = Mon
    /\ targetTime = {}
    /\ minDuration = {}
    /\ freeRooms = <<>>
    /\ roomsPc = "ready"
    /\ SlotsIdle
    /\ TimeIdle
    /\ RestIdle

\* a call findFreeRooms(schedules, "Mon", t)
FindFreeRoomsEdgeCall ==
    /\ roomsPc = "ready"
    /\ \E t \in EdgeTargetInputs :
           /\ day' = Mon
           /\ targetTime' = t
           /\ minDuration' = {}
           /\ passed' = schedules
           /\ mergedMap' = mergeRoomSchedules(schedules)
           /\ freeRooms' = findFreeRooms(schedules, Mon, t, {})
    /\ schedules' = AfterCall(schedules, Mon)
    /\ roomsPc' = "direct"
    /\ UNCHANGED <<clockVars, slotVars, timeVars, restVars>>

NextEdge == FindFreeRoomsEdgeCall

SpecEdge == InitEdge /\ [][NextEdge]_vars

-----------------------------------------------------------------------------
(* The time utilities on their own *)

\* the string HH:mm of an hour and a minute below 100
ClockText(h, m) ==
    <<DigitChars[(h \div 10) + 1], DigitChars[(h % 10) + 1], ":",
      DigitChars[(m \div 10) + 1], DigitChars[(m % 10) + 1]>>

\* strings that are no HH:mm: no colon, a letter for the hour, a letter for the
\* minute, no minute, nothing at all
MalformedTexts ==
    {<<"0", "9", "3", "0">>, <<"x", "x", ":", "0", "0">>, <<"0", "9", ":", "x", "x">>,
     <<"0", "9", ":">>, <<>>}

TimeTexts == {ClockText(h, m) : h \in 0..MaxHour, m \in 0..MaxMinute} \cup MalformedTexts

\* the list searched by findFreeRooms(schedules, "Mon", timeArg)
TimeSchedules ==
    <<RoomSchedule(<<"4", "0", "2">>, Mon,
                   <<TimeSlot(T0900, T0930), TimeSlot(T1430, T1530)>>)>>

InitTime ==
    /\ \/ timeArg \in TimeTexts /\ minutesArg = 0
       \/ timeArg = T0900 /\ minutesArg \in 0..MaxMinutesArg
    /\ timeResult = {}
    /\ minutesResult = <<>>
    /\ timePc = "ready"
    /\ schedules = TimeSchedules
    /\ passed = <<>>
    /\ mergedMap = <<>>
    /\ ClockIdle
    /\ day = Mon
    /\ targetTime = {}
    /\ minDuration = {}
    /\ freeRooms = <<>>
    /\ roomsPc = "ready"
    /\ SlotsIdle
    /\ RestIdle

\* a call timeToMinutes(timeArg): no statement of it throws
TimeToMinutesCall ==
    /\ timePc = "ready"
    /\ roomsPc = "ready"
    /\ timeResult' = {timeToMinutes(timeArg)}
    /\ timePc' = "parsed"
    /\ UNCHANGED <<timeArg, minutesArg, minutesResult, slotVars, roomVars, restVars>>

\* a call minutesToTime(minutesArg)
MinutesToTimeCall ==
    /\ timePc = "ready"
    /\ roomsPc = "ready"
    /\ minutesResult' = minutesToTime(minutesArg)
    /\ timePc' = "formatted"
    /\ UNCHANGED <<timeArg, timeResult, minutesArg, slotVars, roomVars, restVars>>

\* a call findFreeRooms(schedules, "Mon", timeArg)
FindFreeRoomsAtCall ==
    /\ roomsPc = "ready"
    /\ timePc = "ready"
    /\ day' = Mon
    /\ targetTime' = {timeArg}
    /\ minDuration' = {}
    /\ passed' = schedules
    /\ mergedMap' = mergeRoomSchedules(schedules)
    /\ freeRooms' = findFreeRooms(schedules, Mon, {timeArg}, {})
    /\ roomsPc' = "direct"
    /\ UNCHANGED <<schedules, clockVars, slotVars, timeVars, restVars>>

NextTime == TimeToMinutesCall \/ MinutesToTimeCall \/ FindFreeRoomsAtCall

SpecTime == InitTime /\ [][NextTime]_vars

-----------------------------------------------------------------------------
(* The clock functions on their own *)

\* minutes of the UTC day: midnight, 09:15, the last minute of the Kolkata day and
\* the first of the next, 14:30, the last minute of the UTC day
InstantMinutes == {0, 555, 870, 1109, 1110, 1439}

InitDay ==
    /\ instant \in [weekday : 0..6, minutes : InstantMinutes]
    /\ currentDay = <<>>
    /\ currentTime = <<>>
    /\ dayPc = "ready"
    /\ SlotsIdle
    /\ RoomsIdle
    /\ TimeIdle
    /\ CallsIdle
    /\ AuthIdle
    /\ CacheIdle

\* a call getCurrentDay()
GetCurrentDayCall ==
    /\ dayPc = "ready"
    /\ currentDay' = getCurrentDay(InKolkata(instant))
    /\ dayPc' = "day"
    /\ UNCHANGED <<instant, currentTime, slotVars, roomVars, timeVars, callVars, authVars, cacheVars>>

\* a call getCurrentTime()
GetCurrentTimeCall ==
    /\ dayPc = "ready"
    /\ currentTime' = getCurrentTime(InKolkata(instant))
    /\ dayPc' = "time"
    /\ UNCHANGED <<instant, currentDay, slotVars, roomVars, timeVars, callVars, authVars, cacheVars>>

NextDay == GetCurrentDayCall \/ GetCurrentTimeCall

SpecDay == InitDay /\ [][NextDay]_vars

-----------------------------------------------------------------------------
(* findFreeRooms calls in flight on one list *)

\* The calls share the list and its TimeSlot objects, nothing else: merged, sorted,
\* mergedOccupied, freeSlots and freeRooms are locals of a call.  A call is taken
\* in three steps, mergeRoomSchedules, merged.forEach and the sort, and the steps
\* of different calls come in any order.

\* the Map of a call with its TimeSlot objects as they are in list now
Deref(map, list) ==
    [r \in 1..Len(map) |->
        <<map[r][1],
          [k \in 1..Len(map[r][2]) |->
              <<map[r][2][k][1],
                [n \in 1..Len(map[r][2][k][2]) |->
                    LET o == map[r][2][k][2][n]
                    IN  [start |-> list[o.ref[1]].occupied[o.ref[2]].start,
                         end   |-> list[o.ref[1]].occupied[o.ref[2]].end,
                         ref   |-> o.ref]]>>]>>]

\* the objects of the list that stand in a mergedOccupied list of the Map when
\* merged.forEach has run for day d
ObjectsOf(map, d) ==
    UNION {LET mo == MergedOccupied(OccupiedOn(map[r][2], d),
                                    OPERATING_HOURS.start, OPERATING_HOURS.end)
           IN  {mo[k] : k \in {n \in 1..Len(mo) : "ref" \in DOMAIN mo[n]}}
           : r \in 1..Len(map)}

\* the list with the objects as the merge loops have left them
Written(list, objects) ==
    [i \in 1..Len(list) |->
        [list[i] EXCEPT !.occupied =
            [j \in 1..Len(list[i].occupied) |->
                IF \E o \in objects : o.ref = <<i, j>>
                THEN LET o == CHOOSE o \in objects : o.ref = <<i, j>>
                     IN  TimeSlot(o.start, o.end)
                ELSE list[i].occupied[j]]]]

\* the map of a call with the marks of the objects taken off
Unmarked(map) ==
    [r \in 1..Len(map) |->
        <<map[r][1],
          [k \in 1..Len(map[r][2]) |->
              <<map[r][2][k][1],
                [n \in 1..Len(map[r][2][k][2]) |->
                    TimeSlot(map[r][2][k][2][n].start, map[r][2][k][2][n].end)]>>]>>]

\* shared lists: empty; two records of one room and day whose slots merge; two
\* rooms, the second free for longer; one room on two days
SharedInputs ==
    {<<>>,
     <<RoomSchedule(<<"4", "0", "2">>, Mon, <<TimeSlot(T0800, T0930)>>),
       RoomSchedule(<<"4", "0", "2">>, Mon, <<TimeSlot(T0900, T1030)>>)>>,
     <<RoomSchedule(<<"5", "0", "1">>, Mon, <<TimeSlot(T0900, T1030), TimeSlot(T1030, T1130)>>),
       RoomSchedule(<<"4", "0", "2">>, Mon, <<TimeSlot(T0900, T0930)>>)>>,
     <<RoomSchedule(<<"4", "0", "2">>, Mon, <<TimeSlot(T0930, T1000), TimeSlot(T1000, T1430)>>),
       RoomSchedule(<<"4", "0", "2">>, Tue, <<TimeSlot(T0900, T1000), TimeSlot(T0930, T1100)>>)>>}

\* the arguments of a call after the list
CallInputs ==
    {[day |-> Mon, targetTime |-> {},      minDuration |-> {}],
     [day |-> Mon, targetTime |-> {T1030}, minDuration |-> {}],
     [day |-> Tue, targetTime |-> {},      minDuration |-> {120}]}

Callers == 1..MaxCallers

InitShared ==
    /\ schedules \in SharedInputs
    /\ calls = [c \in Callers |-> [pc |-> "idle"]]
    /\ passed = <<>>
    /\ mergedMap = <<>>
    /\ ClockIdle
    /\ day = Mon
    /\ targetTime = {}
    /\ minDuration = {}
    /\ freeRooms = <<>>
    /\ roomsPc = "ready"
    /\ SlotsIdle
    /\ TimeIdle
    /\ DayIdle
    /\ AuthIdle
    /\ CacheIdle

SharedUnchanged ==
    UNCHANGED <<passed, mergedMap, day, targetTime, minDuration, freeRooms, roomsPc,
                clockVars, slotVars, timeVars, dayVars, authVars, cacheVars>>

\* caller c calls findFreeRooms(schedules, day, targetTime, minDuration)
CallBegin(c) ==
    /\ calls[c].pc = "idle"
    /\ \E a \in CallInputs :
           calls' = [calls EXCEPT ![c] =
                        [pc |-> "called", given |-> schedules, day |-> a.day,
                         targetTime |-> a.targetTime, minDuration |-> a.minDuration]]
    /\ UNCHANGED schedules
    /\ SharedUnchanged

\* const merged = mergeRoomSchedules(schedules): new lists of the shared objects
CallMerge(c) ==
    /\ calls[c].pc = "called"
    /\ calls' = [calls EXCEPT ![c] =
                    [pc |-> "merged", given |-> @.given, day |-> @.day,
                     targetTime |-> @.targetTime, minDuration |-> @.minDuration,
                     merged |-> mergeRoomSchedules(WithRefs(schedules))]]
    /\ UNCHANGED schedules
    /\ SharedUnchanged

\* merged.forEach(...): findFreeSlots per room on the objects as they are now, the
\* free slots filtered and pushed to the call's freeRooms
CallCollect(c) ==
    /\ calls[c].pc = "merged"
    /\ LET map == Deref(calls[c].merged, schedules)
       IN  /\ calls' = [calls EXCEPT ![c] =
                           [pc |-> "collected", given |-> @.given, day |-> @.day,
                            targetTime |-> @.targetTime, minDuration |-> @.minDuration,
                            merged |-> @.merged,
                            freeRooms |-> Collected(Unmarked(map), @.day, @.targetTime,
                                                    @.minDuration)]]
           /\ schedules' = Written(schedules, ObjectsOf(map, calls[c].day))
    /\ SharedUnchanged

\* freeRooms.sort(...) and return freeRooms
CallReturn(c) ==
    /\ calls[c].pc = "collected"
    /\ calls' = [calls EXCEPT ![c] =
                    [pc |-> "returned", given |-> @.given, day |-> @.day,
                     targetTime |-> @.targetTime, minDuration |-> @.minDuration,
                     freeRooms |-> SortFreeRooms(@.freeRooms)]]
    /\ UNCHANGED schedules
    /\ SharedUnchanged

NextShared ==
    \E c \in Callers : CallBegin(c) \/ CallMerge(c) \/ CallCollect(c) \/ CallReturn(c)

SpecShared == InitShared /\ [][NextShared]_vars

-----------------------------------------------------------------------------
(* findFreeRooms on lists as JSON gives them *)

\* records as the types promise them, and records as unchecked JSON may hold them:
\* without occupied, with a slot without start, with a slot without end
LooseRecordInputs ==
    {RoomSchedule(<<"4", "0", "2">>, Mon, <<>>),
     RoomSchedule(<<"4", "0", "2">>, Mon, <<TimeSlot(T0900, T0930), TimeSlot(T1430, T1530)>>),
     RoomSchedule(<<"9", "9", "9">>, Tue, <<TimeSlot(T0930, T1430)>>),
     [room |-> <<"4", "0", "2">>, day |-> Mon],
     [room |-> <<"4", "0", "2">>, day |-> Mon, occupied |-> <<[end |-> T0930]>>],
     [room |-> <<"9", "9", "9">>, day |-> Tue, occupied |-> <<[start |-> T0930]>>]}

\* days: with records, and without any
LooseDayInputs == {Mon, Tue, Fri, Sun}

\* targetTime: not given, inside a free slot, after the window
LooseTargetInputs == {{}, {T1000}, {T2000}}

\* minDuration: not given, 0, 120
LooseDurationInputs == {{}, {0}, {120}}

InitLoose ==
    /\ schedules \in SeqsUpTo(LooseRecordInputs, MaxLooseRecords)
    /\ passed = <<>>
    /\ mergedMap = <<>>
    /\ ClockIdle
    /\ day = Mon
    /\ targetTime = {}
    /\ minDuration = {}
    /\ freeRooms = <<>>
    /\ roomsPc = "ready"
    /\ SlotsIdle
    /\ TimeIdle
    /\ RestIdle

\* a call findFreeRooms(schedules, d, t, md) that returns a list or is left by a
\* TypeError
FindFreeRoomsLooseCall ==
    /\ roomsPc = "ready"
    /\ passed' = schedules
    /\ mergedMap' = IF ThrowsInMerge(schedules) THEN <<>> ELSE mergeRoomSchedules(schedules)
    /\ \E d \in LooseDayInputs, t \in LooseTargetInputs, md \in LooseDurationInputs :
           /\ day' = d
           /\ targetTime' = t
           /\ minDuration' = md
           /\ IF findFreeRoomsThrows(schedules, d)
              THEN freeRooms' = <<>> /\ roomsPc' = "threw"
              ELSE freeRooms' = findFreeRooms(schedules, d, t, md) /\ roomsPc' = "direct"
    /\ UNCHANGED <<schedules, clockVars, slotVars, timeVars, restVars>>

NextLoose == FindFreeRoomsLooseCall

SpecLoose == InitLoose /\ [][NextLoose]_vars

-----------------------------------------------------------------------------
(* The middleware of the admin routes *)

AdminPath == <<"/", "a", "d", "m", "i", "n">>
LoginPath == AdminPath \o <<"/", "l", "o", "g", "i", "n">>
DefaultDomain == <<"a", "d", "y", "p", "u", ".", "e", "d", "u", ".", "i", "n">>

\* text.startsWith(prefix)
StartsWith(text, prefix) ==
    Len(text) >= Len(prefix) /\ SubSeq(text, 1, Len(prefix)) = prefix

\* text.endsWith(suffix)
EndsWith(text, suffix) ==
    Len(text) >= Len(suffix)
        /\ SubSeq(text, Len(text) - Len(suffix) + 1, Len(text)) = suffix

\* !supabaseUrl || !supabaseKey || supabaseUrl === 'your_supabase_url'
NotConfigured(e) ==
    \/ e.NEXT_PUBLIC_SUPABASE_URL \subseteq {""}
    \/ e.NEXT_PUBLIC_SUPABASE_ANON_KEY \subseteq {""}
    \/ e.NEXT_PUBLIC_SUPABASE_URL = {"your_supabase_url"}

\* process.env.ADMIN_EMAIL_DOMAIN || 'adypu.edu.in'
AllowedDomain(e) ==
    IF e.ADMIN_EMAIL_DOMAIN \subseteq {<<>>} THEN DefaultDomain
    ELSE CHOOSE dom \in e.ADMIN_EMAIL_DOMAIN : TRUE

\* the domain test without the @
EmailAllowed_NoAt(user, allowedDomain) ==
    \E email \in user.email : EndsWith(email, allowedDomain)

\* user.email?.endsWith(`@${allowedDomain}`), false for a user without email
EmailAllowed(user, allowedDomain) ==
    \E email \in user.email : EndsWith(email, <<"@">> \o allowedDomain)

\* NextResponse.redirect(url) of the cloned request URL with the pathname
\* /admin/login and, where one is set, the error parameter
Redirect(req, error) ==
    [kind |-> "redirect", pathname |-> LoginPath,
     error |-> IF error = {} THEN req.error ELSE error]

\* the response of middleware(request) and whether supabase.auth.signOut() ran
middleware(e, req, sess) ==
    IF NotConfigured(e)
    THEN IF req.pathname = LoginPath
         THEN [response |-> [kind |-> "next"], signOut |-> FALSE]
         ELSE [response |-> Redirect(req, {"not_configured"}), signOut |-> FALSE]
    ELSE IF StartsWith(req.pathname, AdminPath)
         THEN IF req.pathname = LoginPath
              THEN [response |-> [kind |-> "next"], signOut |-> FALSE]
              ELSE IF sess = {}
                   THEN [response |-> Redirect(req, {}), signOut |-> FALSE]
                   ELSE LET user == CHOOSE u \in sess : TRUE
                        IN  IF ~EmailAllowed(user, AllowedDomain(e))
                            THEN [response |-> Redirect(req, {"unauthorized"}),
                                  signOut |-> TRUE]
                            ELSE [response |-> [kind |-> "next"], signOut |-> FALSE]
         ELSE [response |-> [kind |-> "next"], signOut |-> FALSE]

\* the environment: URL unset, empty, the placeholder or set; key unset or set; the
\* domain unset, empty or nst.in
EnvInputs ==
    [NEXT_PUBLIC_SUPABASE_URL : {{}, {""}, {"your_supabase_url"}, {"https://db.example"}},
     NEXT_PUBLIC_SUPABASE_ANON_KEY : {{}, {"anon-key"}},
     ADMIN_EMAIL_DOMAIN : {{}, {<<>>}, {<<"n", "s", "t", ".", "i", "n">>}}]

\* paths the matcher /admin/:path* hands to the middleware: /admin, /admin/login,
\* /admin/pdf and /admin/login/x; with or without an error parameter
RequestInputs ==
    [pathname : {AdminPath, LoginPath, AdminPath \o <<"/", "p", "d", "f">>,
                 LoginPath \o <<"/", "x">>},
     error : {{}, {"unauthorized"}}]

\* no user; users without email, of the default domain, of nst.in, of a domain that
\* ends like the default one, and of another domain
SessionInputs ==
    {{}} \cup
    {{[email |-> m]} :
        m \in {{}, {<<"s", "@">> \o DefaultDomain}, {<<"s", "@", "n", "s", "t", ".", "i", "n">>},
               {<<"s", "@", "x">> \o DefaultDomain}, {<<"s", "@", "g", ".", "c", "o">>}}}

InitAuth ==
    /\ env \in EnvInputs
    /\ request \in RequestInputs
    /\ session \in SessionInputs
    /\ response = [kind |-> "none"]
    /\ authPc = "ready"
    /\ SlotsIdle
    /\ RoomsIdle
    /\ TimeIdle
    /\ DayIdle
    /\ CallsIdle
    /\ CacheIdle

\* the middleware serves the request; signOut ends the session
MiddlewareCall ==
    /\ authPc = "ready"
    /\ LET out == middleware(env, request, session)
       IN  /\ response' = out.response
           /\ session' = IF out.signOut THEN {} ELSE session
    /\ authPc' = "done"
    /\ UNCHANGED <<env, request, slotVars, roomVars, timeVars, dayVars, callVars,
                   cacheVars>>

NextAuth == MiddlewareCall

SpecAuth == InitAuth /\ [][NextAuth]_vars

-----------------------------------------------------------------------------
(* getCompleteSchedules on its own *)

\* records of the cache, whose room and day are any strings: room 402 on Mon twice
\* and on Tue, a room outside ALL_ROOMS on a day outside DAYS, and a room and a day
\* with a hyphen
KeyRecordInputs ==
    {RoomSchedule(<<"4", "0", "2">>, Mon, <<TimeSlot(T0900, T0930)>>),
     RoomSchedule(<<"4", "0", "2">>, Mon, <<TimeSlot(T1430, T1530)>>),
     RoomSchedule(<<"4", "0", "2">>, Tue, <<>>),
     RoomSchedule(<<"9", "9", "9">>, Fri, <<TimeSlot(T0900, T0930)>>),
     RoomSchedule(<<"4", "-", "0", "2">>, Mon, <<TimeSlot(T0900, T0930)>>),
     RoomSchedule(<<"4">>, <<"0", "2", "-">> \o Mon, <<TimeSlot(T1430, T1530)>>)}

InitKey ==
    /\ schedules \in SeqsUpTo(KeyRecordInputs, MaxKeyRecords)
    /\ passed = <<>>
    /\ mergedMap = <<>>
    /\ ClockIdle
    /\ day = Mon
    /\ targetTime = {}
    /\ minDuration = {}
    /\ freeRooms = <<>>
    /\ roomsPc = "ready"
    /\ SlotsIdle
    /\ TimeIdle
    /\ RestIdle

\* a call getCompleteSchedules(schedules)
GetCompleteSchedulesCall ==
    /\ roomsPc = "ready"
    /\ passed' = getCompleteSchedules(schedules)
    /\ roomsPc' = "completed"
    /\ UNCHANGED <<schedules, mergedMap, day, targetTime, minDuration, freeRooms,
                   clockVars, slotVars, timeVars, restVars>>

NextKey == GetCompleteSchedulesCall

SpecKey == InitKey /\ [][NextKey]_vars

-----------------------------------------------------------------------------
(* GET /api/rooms while the cache is cleared *)

\* schedules is the content of the cache file as its readers see it: a missing
\* file is read as null, which hasScheduleData and getAllParsedSchedules treat as
\* the empty list.  GET awaits between hasScheduleData() and
\* getSchedulesFromCache(), and other requests run at these awaits.

InitClear ==
    /\ schedules \in SeqsUpTo(CachedInputs, MaxClearCached)
    /\ passed = <<>>
    /\ mergedMap = <<>>
    /\ ClockIdle
    /\ day = Mon
    /\ targetTime = {}
    /\ minDuration = {}
    /\ freeRooms = <<>>
    /\ roomsPc = "ready"
    /\ SlotsIdle
    /\ TimeIdle
    /\ RestIdle

\* GET /api/rooms up to const hasData = await hasScheduleData()
RoomsGetCheck ==
    /\ roomsPc = "ready"
    /\ \E q \in QueryInputs :
           /\ freeNow' = q.freeNow
           /\ day' = IF q.freeNow \/ q.day = {} THEN getCurrentDay(now)
                     ELSE CHOOSE d \in q.day : TRUE
           /\ targetTime' = IF q.freeNow THEN {getCurrentTime(now)} ELSE q.time
           /\ minDuration' = q.minDuration
    /\ hasData' = (Len(schedules) > 0)
    /\ roomsPc' = "checked"
    /\ UNCHANGED <<schedules, passed, mergedMap, freeRooms, now, loaded, reply, imports,
                   slotVars, timeVars, dayVars, callVars, authVars>>

\* GET /api/rooms from if (!hasData) on: the reply without data, or the cache
\* load, the completion, the search and the reply with data
RoomsGetRespond ==
    /\ roomsPc = "checked"
    /\ IF ~hasData
       THEN /\ reply' = [success |-> TRUE, data |-> <<>>, hasData |-> FALSE]
            /\ UNCHANGED <<loaded, passed, mergedMap, freeRooms>>
       ELSE /\ loaded' = schedules
            /\ passed' = getCompleteSchedules(loaded')
            /\ mergedMap' = mergeRoomSchedules(passed')
            /\ freeRooms' = findFreeRooms(passed', day, targetTime, minDuration)
            /\ reply' = [success |-> TRUE, data |-> freeRooms', hasData |-> TRUE]
    /\ roomsPc' = "route"
    /\ UNCHANGED <<schedules, day, targetTime, minDuration, clockVars, hasData, imports,
                   slotVars, timeVars, dayVars, callVars, authVars>>

\* POST /api/rooms, or clearScheduleData: the cache file is unlinked
ClearCachePost ==
    /\ schedules' = <<>>
    /\ UNCHANGED <<passed, mergedMap, day, targetTime, minDuration, freeRooms, roomsPc,
                   clockVars, slotVars, timeVars, restVars>>

NextClear == RoomsGetCheck \/ RoomsGetRespond \/ ClearCachePost

SpecClear == InitClear /\ [][NextClear]_vars

-----------------------------------------------------------------------------
(* importScheduleData with merge *)

\* code units of the characters of an HH:mm string
CharCode ==
    [c \in {"0", "1", "2", "3", "4", "5", "6", "7", "8", "9", ":"} |->
        IF c = ":" THEN 58 ELSE 48 + DigitVal(c)]

\* a < b for strings, by code units; for zero-padded HH:mm strings, whose colons
\* stand at the same place, this is also the order of a.localeCompare(b)
RECURSIVE StrLess(_, _)
StrLess(a, b) ==
    IF b = <<>> THEN FALSE
    ELSE IF a = <<>> THEN TRUE
    ELSE IF a[1] # b[1] THEN CharCode[a[1]] < CharCode[b[1]]
    ELSE StrLess(Tail(a), Tail(b))

\* [...slots].sort((a, b) => a.start.localeCompare(b.start)), a stable sort
SortedByStartText(slots) ==
    LET n    == Len(slots)
        rank == [i \in 1..n |->
                    Cardinality({j \in 1..n : StrLess(slots[j].start, slots[i].start)
                                               \/ (slots[j].start = slots[i].start /\ j < i)})]
    IN  [p \in 1..n |-> slots[CHOOSE i \in 1..n : rank[i] = p - 1]]

\* the loop of mergeTimeSlots over sorted[1..], merged starting as [{ ...sorted[0] }]
RECURSIVE MergeTimeLoop(_)
MergeTimeLoop(sorted) ==
    IF Len(sorted) = 1 THEN sorted
    ELSE LET merged  == MergeTimeLoop(SubSeq(sorted, 1, Len(sorted) - 1))
             last    == merged[Len(merged)]
             current == sorted[Len(sorted)]
         IN  IF ~StrLess(last.end, current.start)
             THEN [merged EXCEPT ![Len(merged)].end =
                      IF StrLess(last.end, current.end) THEN current.end ELSE last.end]
             ELSE Append(merged, current)

mergeTimeSlots(slots) ==
    IF Len(slots) = 0 THEN <<>> ELSE MergeTimeLoop(SortedByStartText(slots))

\* for (const entry of existing): scheduleMap.set(key, copy of entry)
RECURSIVE ExistingEntries(_)
ExistingEntries(existing) ==
    IF existing = <<>> THEN <<>>
    ELSE LET entry == existing[Len(existing)]
         IN  MapSet(ExistingEntries(SubSeq(existing, 1, Len(existing) - 1)),
                    ScheduleKey(entry.room, entry.day), entry)

\* for (const entry of schedules): merged into the entry of its key, or set
RECURSIVE MergedEntries(_, _)
MergedEntries(scheduleMap, entries) ==
    IF entries = <<>> THEN scheduleMap
    ELSE LET map   == MergedEntries(scheduleMap, SubSeq(entries, 1, Len(entries) - 1))
             entry == entries[Len(entries)]
             key   == ScheduleKey(entry.room, entry.day)
         IN  IF MapHas(map, key)
             THEN LET found == MapGet(map, key)
                  IN  MapSet(map, key,
                             [found EXCEPT !.occupied =
                                 mergeTimeSlots(found.occupied \o entry.occupied)])
             ELSE MapSet(map, key, entry)

\* finalSchedules of importScheduleData(entries, true) with the cache read as
\* existing
FinalSchedules(existing, entries) ==
    MapValues(MergedEntries(ExistingEntries(existing), entries))

\* the cache before the imports: no file, or room 402 on Mon until 09:30
ImportCacheInputs ==
    {<<>>, <<RoomSchedule(<<"4", "0", "2">>, Mon, <<TimeSlot(T0900, T0930)>>)>>}

\* the entries of one import: room 402 on Mon from 09:30, room 402 on Mon in the
\* afternoon, room 501 on Tue
ImportInputs ==
    {<<RoomSchedule(<<"4", "0", "2">>, Mon, <<TimeSlot(T0930, T1000)>>)>>,
     <<RoomSchedule(<<"4", "0", "2">>, Mon, <<TimeSlot(T1430, T1530)>>)>>,
     <<RoomSchedule(<<"5", "0", "1">>, Tue, <<TimeSlot(T0900, T1030)>>)>>}

Importers == 1..MaxImporters

InitImport ==
    /\ schedules \in ImportCacheInputs
    /\ imports = [c \in Importers |-> [pc |-> "idle"]]
    /\ hasData = FALSE
    /\ loaded = <<>>
    /\ reply = [success |-> FALSE]
    /\ passed = <<>>
    /\ mergedMap = <<>>
    /\ ClockIdle
    /\ day = Mon
    /\ targetTime = {}
    /\ minDuration = {}
    /\ freeRooms = <<>>
    /\ roomsPc = "ready"
    /\ SlotsIdle
    /\ TimeIdle
    /\ DayIdle
    /\ CallsIdle
    /\ AuthIdle

ImportUnchanged ==
    UNCHANGED <<passed, mergedMap, day, targetTime, minDuration, freeRooms, roomsPc,
                clockVars, slotVars, timeVars, dayVars, callVars, authVars,
                hasData, loaded, reply>>

\* caller c calls importScheduleData(entries, true)
ImportBegin(c) ==
    /\ imports[c].pc = "idle"
    /\ \E entries \in ImportInputs :
           imports' = [imports EXCEPT ![c] = [pc |-> "called", schedules |-> entries]]
    /\ UNCHANGED schedules
    /\ ImportUnchanged

\* const existing = await loadCachedSchedules() || []
ImportLoad(c) ==
    /\ imports[c].pc = "called"
    /\ imports' = [imports EXCEPT ![c] =
                      [pc |-> "loaded", schedules |-> @.schedules, existing |-> schedules]]
    /\ UNCHANGED schedules
    /\ ImportUnchanged

\* the merge into scheduleMap and await saveParsedSchedules(finalSchedules)
ImportSave(c) ==
    /\ imports[c].pc = "loaded"
    /\ schedules' = FinalSchedules(imports[c].existing, imports[c].schedules)
    /\ imports' = [imports EXCEPT ![c] =
                      [pc |-> "saved", schedules |-> @.schedules, existing |-> @.existing]]
    /\ ImportUnchanged

NextImport == \E c \in Importers : ImportBegin(c) \/ ImportLoad(c) \/ ImportSave(c)

SpecImport == InitImport /\ [][NextImport]_vars

-----------------------------------------------------------------------------
(* Properties of findFreeSlots *)

WindowStart == timeToMinutes(OPERATING_HOURS.start)
WindowEnd == timeToMinutes(OPERATING_HOURS.end)

\* a list of TimeSlot as a list of <<start, end>> in minutes
InMinutes(slots) ==
    [i \in 1..Len(slots) |-> <<timeToMinutes(slots[i].start), timeToMinutes(slots[i].end)>>]

\* a list of <<start, end>> ordered by start
RECURSIVE OrderedByStart(_)
OrderedByStart(iv) ==
    IF iv = <<>> THEN <<>>
    ELSE LET k == CHOOSE k \in 1..Len(iv) : \A j \in 1..Len(iv) : iv[k][1] <= iv[j][1]
         IN  <<iv[k]>> \o OrderedByStart([j \in 1..(Len(iv) - 1) |->
                                             IF j < k THEN iv[j] ELSE iv[j + 1]])

Covers(iv, m) == \E i \in 1..Len(iv) : iv[i][1] <= m /\ m < iv[i][2]

\* C1 (tiling): after findFreeSlots, the merged occupied slots and the free slots,
\* taken together and ordered by start, begin at the window start, each end where
\* the next begins, finish at the window end, and cover no minute twice.
C1_Tiling ==
    slotsPc = "done" =>
        LET both == InMinutes(mergedOccupied \o freeSlots)
            ord  == OrderedByStart(both)
            n    == Len(ord)
        IN  /\ n >= 1
            /\ ord[1][1] = WindowStart
            /\ \A i \in 1..(n - 1) : ord[i][2] = ord[i + 1][1]
            /\ ord[n][2] = WindowEnd
            /\ \A i, j \in 1..n :
                   i < j => ~(Max(both[i][1], both[j][1]) < Min(both[i][2], both[j][2]))
            /\ \A m \in WindowStart..(WindowEnd - 1) : Covers(both, m)

C1_Witness ==
    /\ slotsPc = "done"
    /\ Len(occupiedSlots) = 2
    /\ Len(mergedOccupied) = 2
    /\ Len(freeSlots) = 3

\* C2 (pointwise): after findFreeSlots, a minute of the window lies in a returned
\* free slot exactly when no input slot [s, e) contains it, and the free slots are
\* in chronological order.
C2_Pointwise ==
    slotsPc = "done" =>
        LET free == InMinutes(freeSlots)
            occ  == InMinutes(occupiedSlots)
        IN  /\ \A m \in WindowStart..(WindowEnd - 1) : Covers(free, m) <=> ~Covers(occ, m)
            /\ \A i \in 1..(Len(free) - 1) : free[i][1] < free[i + 1][1]

\* unsorted, overlapping input that begins before the window
C2_Witness ==
    /\ slotsPc = "done"
    /\ occupiedSlots = <<TimeSlot(T1000, T1200), TimeSlot(T0800, T1030)>>
    /\ freeSlots = <<TimeSlot(T1200, T1930)>>

\* an input slot as clipped to the window, in minutes
Clipped(sl) ==
    <<Max(timeToMinutes(sl.start), WindowStart), Min(timeToMinutes(sl.end), WindowEnd)>>

\* C3 (merged list): the merged occupied list is ascending by start, each slot lies
\* in the window with start < end, consecutive slots are separated by a gap
\* (end < next start), and two input slots that survive the clip and overlap, touch
\* or start together lie in one merged slot; [{10:00,11:00},{10:30,12:00}] merges
\* to [{10:00,12:00}].
C3_Merged ==
    slotsPc = "done" =>
        LET mo == InMinutes(mergedOccupied)
        IN  /\ \A i \in 1..Len(mo) :
                   WindowStart <= mo[i][1] /\ mo[i][1] < mo[i][2] /\ mo[i][2] <= WindowEnd
            /\ \A i \in 1..(Len(mo) - 1) : mo[i][2] < mo[i + 1][1]
            /\ \A a, b \in 1..Len(occupiedSlots) :
                   LET ca == Clipped(occupiedSlots[a])
                       cb == Clipped(occupiedSlots[b])
                   IN  ( /\ ca[1] < ca[2]
                         /\ cb[1] < cb[2]
                         /\ timeToMinutes(occupiedSlots[a].start)
                                <= timeToMinutes(occupiedSlots[b].start)
                         /\ timeToMinutes(occupiedSlots[a].end)
                                >= timeToMinutes(occupiedSlots[b].start) )
                       => \E k \in 1..Len(mo) :
                              /\ mo[k][1] <= ca[1] /\ ca[2] <= mo[k][2]
                              /\ mo[k][1] <= cb[1] /\ cb[2] <= mo[k][2]
            /\ (occupiedSlots = <<TimeSlot(T1000, T1100), TimeSlot(T1030, T1200)>>
                    => mergedOccupied = <<TimeSlot(T1000, T1200)>>)

\* two touching slots, given later one first, end up as one merged slot
C3_Witness ==
    /\ slotsPc = "done"
    /\ occupiedSlots = <<TimeSlot(T1100, T1200), TimeSlot(T1000, T1100)>>
    /\ mergedOccupied = <<TimeSlot(T1000, T1200)>>

-----------------------------------------------------------------------------
(* Properties of findFreeRooms *)

Called == roomsPc \in {"direct", "route"}

NoFilters == targetTime = {} /\ minDuration = {}

\* the rooms that have a record in a list of RoomSchedule
RoomsOf(list) == {list[i].room : i \in 1..Len(list)}

Roster == {ALL_ROOMS[i] : i \in 1..Len(ALL_ROOMS)}

\* the positions in freeRooms of the results for a room
ResultsFor(room) == {i \in 1..Len(freeRooms) : freeRooms[i].room = room}

\* a result that shows the whole operating window free
WholeWindow(r) ==
    /\ r.freeFrom = OPERATING_HOURS.start
    /\ r.freeTill = OPERATING_HOURS.end
    /\ r.duration = 630

Unoccupied(list, room, d) ==
    \A i \in 1..Len(list) :
        (list[i].room = room /\ list[i].day = d) => list[i].occupied = <<>>

R402 == <<"4", "0", "2">>
R4010 == <<"4", "0", "1", "0">>
R999 == <<"9", "9", "9">>

\* occupied [{09:00,09:30},{14:30,15:30}]: free 09:30-14:30 (300) and 15:30-19:30 (240)
OccupiedB == <<TimeSlot(T0900, T0930), TimeSlot(T1430, T1530)>>
\* occupied [{09:30,14:30}]: free 09:00-09:30 (30) and 14:30-19:30 (300)
OccupiedY == <<TimeSlot(T0930, T1430)>>

\* the occupied slots of a room on day d in a list of RoomSchedule, in list order
RECURSIVE OccupiedFor(_, _, _)
OccupiedFor(list, room, d) ==
    IF list = <<>> THEN <<>>
    ELSE OccupiedFor(SubSeq(list, 1, Len(list) - 1), room, d)
             \o (IF list[Len(list)].room = room /\ list[Len(list)].day = d
                 THEN list[Len(list)].occupied ELSE <<>>)

\* the free slots of a room of the list on day d
FreeOf(list, room, d) ==
    findFreeSlots(OccupiedFor(list, room, d), OPERATING_HOURS.start, OPERATING_HOURS.end)

\* C6 (target filter): when targetTime T is given, every result has
\* toMinutes(freeFrom) <= toMinutes(T) < toMinutes(freeTill), so a free slot that
\* ends at T is not returned; a free slot that starts at T (and is not shorter
\* than minDuration) is returned.
C6_TargetFilter ==
    Called =>
        \A T \in targetTime :
            /\ \A i \in 1..Len(freeRooms) :
                   /\ timeToMinutes(freeRooms[i].freeFrom) <= timeToMinutes(T)
                   /\ timeToMinutes(T) < timeToMinutes(freeRooms[i].freeTill)
            /\ \A room \in RoomsOf(passed) :
                   LET free == FreeOf(passed, room, day)
                   IN  \A k \in 1..Len(free) :
                           ( /\ free[k].start = T
                             /\ \A md \in minDuration :
                                    timeToMinutes(free[k].end) - timeToMinutes(T) >= md )
                           => \E i \in ResultsFor(room) :
                                  /\ freeRooms[i].freeFrom = T
                                  /\ freeRooms[i].freeTill = free[k].end

\* at 09:30 room 402 begins a free slot and room 999 ends one: only 402 is returned
C6_Witness ==
    /\ roomsPc = "direct"
    /\ passed = <<RoomSchedule(R402, Mon, OccupiedB), RoomSchedule(R999, Mon, OccupiedY)>>
    /\ day = Mon
    /\ targetTime = {T0930}
    /\ minDuration = {}
    /\ freeRooms = <<FreeRoom(R402, Mon, TimeSlot(T0930, T1430), 300)>>

\* C7 (minimum duration): when minDuration is given no result is shorter than it;
\* for occupied [{09:00,09:30},{14:30,15:30}] minDuration 250 keeps the slot of 300
\* minutes and drops the one of 240, and minDuration 120 keeps both.
C7_MinDuration ==
    Called =>
        /\ \A md \in minDuration : \A i \in 1..Len(freeRooms) : freeRooms[i].duration >= md
        /\ ( /\ passed = <<RoomSchedule(R402, Mon, OccupiedB)>>
             /\ day = Mon
             /\ targetTime = {} )
           => /\ minDuration = {250} =>
                     freeRooms = <<FreeRoom(R402, Mon, TimeSlot(T0930, T1430), 300)>>
              /\ minDuration = {120} =>
                     freeRooms = <<FreeRoom(R402, Mon, TimeSlot(T0930, T1430), 300),
                                   FreeRoom(R402, Mon, TimeSlot(T1530, T1930), 240)>>

C7_Witness ==
    /\ roomsPc = "direct"
    /\ passed = <<RoomSchedule(R402, Mon, OccupiedB)>>
    /\ day = Mon
    /\ targetTime = {}
    /\ minDuration = {250}
    /\ Len(freeRooms) = 1
    /\ freeRooms[1].duration = 300

\* C8 (sort order): in every returned list the durations do not increase, and of
\* two adjacent results of equal duration the first room's integer value is not
\* the larger one ("402" before "4010").
C8_SortOrder ==
    Called =>
        \A i \in 1..(Len(freeRooms) - 1) :
            /\ freeRooms[i].duration >= freeRooms[i + 1].duration
            /\ freeRooms[i].duration = freeRooms[i + 1].duration
                   => Number(freeRooms[i].room) <= Number(freeRooms[i + 1].room)

\* 4010 is given before 402, both free all day: 402 comes first
C8_Witness ==
    /\ roomsPc = "direct"
    /\ Len(passed) = 2
    /\ passed[1].room = R4010
    /\ passed[2].room = R402
    /\ Len(freeRooms) = 2
    /\ freeRooms[1].room = R402
    /\ freeRooms[2].room = R4010
    /\ freeRooms[1].duration = freeRooms[2].duration

\* C9 (duration): every result has duration = toMinutes(freeTill) -
\* toMinutes(freeFrom), and that is more than 0.
C9_Duration ==
    Called =>
        \A i \in 1..Len(freeRooms) :
            /\ freeRooms[i].duration
                   = timeToMinutes(freeRooms[i].freeTill) - timeToMinutes(freeRooms[i].freeFrom)
            /\ freeRooms[i].duration > 0

\* occupied slots that touch each other and the window start: one free slot results
C9_Witness ==
    /\ roomsPc = "direct"
    /\ passed = <<RoomSchedule(R402, Mon, OccupiedB), RoomSchedule(R402, Mon, OccupiedY)>>
    /\ day = Mon
    /\ NoFilters
    /\ freeRooms = <<FreeRoom(R402, Mon, TimeSlot(T1530, T1930), 240)>>

-----------------------------------------------------------------------------
(* Properties of the time utilities *)

IsNumeral(str) == str /= <<>> /\ \A i \in 1..Len(str) : str[i] \in DOMAIN DigitValue

\* no HH:mm: no colon (or more than one), a part that is no numeral, hour above 23,
\* minute above 59
Malformed(t) ==
    LET parts == SplitColon(t)
    IN  \/ Len(parts) /= 2
        \/ ~IsNumeral(parts[1])
        \/ ~IsNumeral(parts[2])
        \/ DecimalValue(parts[1]) > 23
        \/ DecimalValue(parts[2]) > 59

\* C11 (FormatError): timeToMinutes returns nothing (it fails) for every malformed
\* time string, and no call of findFreeRooms with a malformed targetTime returns a
\* result list.
C11_FormatError ==
    /\ (timePc = "parsed" /\ Malformed(timeArg)) => timeResult = {}
    /\ ~(roomsPc = "direct" /\ \E t \in targetTime : Malformed(t))

\* the zero-padded HH:mm strings of a day
DayTexts == {ClockText(h, m) : h \in 0..23, m \in 0..59}

\* C18 (round trip): for every zero-padded HH:mm of a day,
\* minutesToTime(timeToMinutes(t)) = t; for every m in 0..1439,
\* timeToMinutes(minutesToTime(m)) = m and minutesToTime(m) is two digits, a colon
\* and two digits.
C18_RoundTrip ==
    /\ (timePc = "parsed" /\ timeArg \in DayTexts) =>
           \A r \in timeResult : r /= NaN /\ minutesToTime(r) = timeArg
    /\ (timePc = "formatted" /\ minutesArg \in 0..1439) =>
           /\ timeToMinutes(minutesResult) = minutesArg
           /\ Len(minutesResult) = 5
           /\ minutesResult[3] = ":"
           /\ \A i \in {1, 2, 4, 5} : minutesResult[i] \in DOMAIN DigitValue

\* 09:05 parses to 545, which formats back to 09:05
C18_Witness ==
    /\ timePc = "parsed"
    /\ timeArg = ClockText(9, 5)
    /\ timeResult = {545}

-----------------------------------------------------------------------------
(* Algebraic properties of findFreeSlots *)

\* the lists with the same slots as list, in every order
Reorderings(list) ==
    LET n == Len(list)
    IN  {[i \in 1..n |-> list[f[i]]] :
            f \in {g \in [1..n -> 1..n] : \A a, b \in 1..n : g[a] = g[b] => a = b}}

\* C12 (order invariance): for every permutation of the occupied list,
\* findFreeSlots builds the same merged occupied list and returns the same free
\* slots, also when slots share a start time.
C12_OrderInvariant ==
    slotsPc = "done" =>
        \A p \in Reorderings(occupiedSlots) :
            LET merged == MergedOccupied(p, OPERATING_HOURS.start, OPERATING_HOURS.end)
            IN  /\ merged = mergedOccupied
                /\ Invert(merged, OPERATING_HOURS.start, OPERATING_HOURS.end) = freeSlots

\* two slots with the same start, the longer one first
C12_Witness ==
    /\ slotsPc = "done"
    /\ occupiedSlots = <<TimeSlot(T1000, T1200), TimeSlot(T1000, T1030)>>
    /\ mergedOccupied = <<TimeSlot(T1000, T1200)>>
    /\ freeSlots = <<TimeSlot(T0900, T1000), TimeSlot(T1200, T1930)>>

\* C13 (idempotence): the merged occupied list, given to the clip-sort-merge step
\* again, comes back unchanged, and gives the same free slots.
C13_Idempotent ==
    slotsPc = "done" =>
        LET again == MergedOccupied(mergedOccupied, OPERATING_HOURS.start, OPERATING_HOURS.end)
        IN  /\ again = mergedOccupied
            /\ Invert(again, OPERATING_HOURS.start, OPERATING_HOURS.end) = freeSlots

\* a list that was sorted and clipped into two merged slots
C13_Witness ==
    /\ slotsPc = "done"
    /\ occupiedSlots = <<TimeSlot(T1100, T1200), TimeSlot(T0800, T1000)>>
    /\ mergedOccupied = <<TimeSlot(T0900, T1000), TimeSlot(T1100, T1200)>>

\* a slot with start >= end, or wholly before the window start, or wholly after the
\* window end
Degenerate(sl) ==
    \/ timeToMinutes(sl.start) >= timeToMinutes(sl.end)
    \/ timeToMinutes(sl.end) <= WindowStart
    \/ timeToMinutes(sl.start) >= WindowEnd

Without(list, i) == SubSeq(list, 1, i - 1) \o SubSeq(list, i + 1, Len(list))

\* C16 (degenerate slots are dropped): an empty or inverted slot, or a slot wholly
\* outside the window, at any place of the occupied list changes nothing: the merged
\* occupied list and the free slots are those of the list without it.
C16_DegenerateDropped ==
    slotsPc = "done" =>
        \A i \in 1..Len(occupiedSlots) :
            Degenerate(occupiedSlots[i]) =>
                LET merged == MergedOccupied(Without(occupiedSlots, i),
                                             OPERATING_HOURS.start, OPERATING_HOURS.end)
                IN  /\ merged = mergedOccupied
                    /\ Invert(merged, OPERATING_HOURS.start, OPERATING_HOURS.end) = freeSlots

\* an inverted slot behind a proper one
C16_Witness ==
    /\ slotsPc = "done"
    /\ occupiedSlots = <<TimeSlot(T1000, T1100), TimeSlot(T1200, T1000)>>
    /\ mergedOccupied = <<TimeSlot(T1000, T1100)>>
    /\ freeSlots = <<TimeSlot(T0900, T1000), TimeSlot(T1100, T1930)>>

-----------------------------------------------------------------------------
(* Properties of mergeRoomSchedules *)

\* the days of records and of queries
AnyDay == RecordDays \cup DayInputs \cup {DAYS[i] : i \in 1..Len(DAYS)}

\* C14 (aggregation): in the Map built by mergeRoomSchedules the rooms are those
\* of the records, the days of a room are those of its records, and the list of a
\* (room, day) is the occupied lists of exactly the records of that room and day,
\* joined in input order with equal slots kept; a (room, day) without a record is
\* looked up as the empty list.
C14_Aggregation ==
    Called =>
        \A room \in RoomIds :
            /\ MapHas(mergedMap, room) <=> room \in RoomsOf(passed)
            /\ \A d \in AnyDay :
                   IF MapHas(mergedMap, room)
                   THEN /\ MapHas(MapGet(mergedMap, room), d)
                               <=> \E i \in 1..Len(passed) :
                                       passed[i].room = room /\ passed[i].day = d
                        /\ OccupiedOn(MapGet(mergedMap, room), d) = OccupiedFor(passed, room, d)
                   ELSE OccupiedFor(passed, room, d) = <<>>

\* the same record twice, and one of another room on another day: the slots of
\* room 402 on Mon are kept twice, and nothing of room 999 is among them
C14_Witness ==
    /\ roomsPc = "direct"
    /\ Len(passed) = 2
    /\ passed[1] = RoomSchedule(R402, Mon, OccupiedB)
    /\ passed[2] = RoomSchedule(R402, Mon, OccupiedB)
    /\ OccupiedOn(MapGet(mergedMap, R402), Mon) = OccupiedB \o OccupiedB
    /\ ~MapHas(MapGet(mergedMap, R402), Tue)
    /\ ~MapHas(mergedMap, R999)

-----------------------------------------------------------------------------
(* findFreeRooms and the operating window *)

\* C15 (inside the window): every result of findFreeRooms has
\* 09:00 <= freeFrom < freeTill <= 19:30, also when occupied slots begin before
\* 09:00 or end after 19:30; with a targetTime before 09:00 or at or after 19:30
\* the result is the empty list.
C15_InsideWindow ==
    Called =>
        /\ \A i \in 1..Len(freeRooms) :
               /\ WindowStart <= timeToMinutes(freeRooms[i].freeFrom)
               /\ timeToMinutes(freeRooms[i].freeFrom) < timeToMinutes(freeRooms[i].freeTill)
               /\ timeToMinutes(freeRooms[i].freeTill) <= WindowEnd
        /\ \A t \in targetTime :
               (timeToMinutes(t) < WindowStart \/ timeToMinutes(t) >= WindowEnd)
                   => freeRooms = <<>>

\* a room occupied from before the window and until after it: what is free lies
\* between
C15_Witness ==
    /\ roomsPc = "direct"
    /\ passed = <<RoomSchedule(R402, Mon, <<TimeSlot(T0800, T0930)>>),
                  RoomSchedule(R402, Mon, <<TimeSlot(T1430, T2000)>>)>>
    /\ targetTime = {}
    /\ freeRooms = <<FreeRoom(R402, Mon, TimeSlot(T0930, T1430), 300)>>

\* C17 (immutable snapshot): after a call of findFreeRooms the list, every
\* record's occupied list and every slot's start and end are what they were
\* before the call, and the same query on the list gives the same result again.
C17_Snapshot ==
    roomsPc = "direct" =>
        /\ schedules = passed
        /\ findFreeRooms(schedules, day, targetTime, minDuration) = freeRooms

\* two slots of one room that are merged into one: the end of the first merged
\* slot was moved from 09:30 to 10:30, and the list still has 09:30
C17_Witness ==
    /\ roomsPc = "direct"
    /\ passed = <<RoomSchedule(R402, Mon, <<TimeSlot(T0800, T0930)>>),
                  RoomSchedule(R402, Mon, <<TimeSlot(T0900, T1030)>>)>>
    /\ schedules = passed
    /\ targetTime = {}
    /\ freeRooms = <<FreeRoom(R402, Mon, TimeSlot(T1030, T1930), 540)>>

-----------------------------------------------------------------------------
(* Properties of the queries for the current time *)

\* the clock time of an instant as HH:mm
ClockTextOf(at) == ClockText(at.minutes \div 60, at.minutes % 60)

\* C19 (getFreeNow): getFreeNow(all) returns findFreeRooms(all, d, t) with
\* minDuration unset, d and t being the day and the time of the clock when it is
\* read; every result contains t in [freeFrom, freeTill), and every free slot of a
\* room of the list that contains t is returned, however short.
C19_FreeNow ==
    roomsPc = "freeNow" =>
        \E lag \in 0..MaxLag :
            LET t == ClockTextOf(Tick(now, lag))
            IN  /\ passed = schedules
                /\ day = getCurrentDay(now)
                /\ targetTime = {t}
                /\ minDuration = {}
                /\ freeRooms = findFreeRooms(passed, day, {t}, {})
                /\ \A i \in 1..Len(freeRooms) :
                       /\ timeToMinutes(freeRooms[i].freeFrom) <= timeToMinutes(t)
                       /\ timeToMinutes(t) < timeToMinutes(freeRooms[i].freeTill)
                /\ \A room \in RoomsOf(passed) :
                       LET free == FreeOf(passed, room, day)
                       IN  \A k \in 1..Len(free) :
                               ( /\ timeToMinutes(free[k].start) <= timeToMinutes(t)
                                 /\ timeToMinutes(t) < timeToMinutes(free[k].end) )
                               => \E i \in ResultsFor(room) :
                                      /\ freeRooms[i].freeFrom = free[k].start
                                      /\ freeRooms[i].freeTill = free[k].end

\* Thursday 09:15: the room is free for the half hour from 09:00
C19_Witness ==
    /\ roomsPc = "freeNow"
    /\ now = [weekday |-> 4, minutes |-> 555]
    /\ passed = <<RoomSchedule(R402, Thur, OccupiedY)>>
    /\ day = Thur
    /\ targetTime = {ClockText(9, 15)}
    /\ freeRooms = <<FreeRoom(R402, Thur, TimeSlot(T0900, T0930), 30)>>

\* C20 (weekend): when GET serves a freeNow query with data while it is Saturday
\* or Sunday, the day handed to findFreeRooms is Mon, never Sat or Sun.
C20_WeekendSubstituted ==
    ( /\ roomsPc = "route"
      /\ freeNow
      /\ Len(passed) > 0
      /\ now.weekday \in {0, 6}
      /\ Tick(now, MaxLag).weekday \in {0, 6} )
    => day = Mon /\ day /= Sat /\ day /= Sun

-----------------------------------------------------------------------------
(* Properties of getCurrentDay *)

\* the weekday in Asia/Kolkata of an instant given in UTC: the next weekday from
\* 18:30 UTC on
KolkataWeekday(utc) ==
    IF utc.minutes >= 1110 THEN (utc.weekday + 1) % 7 ELSE utc.weekday

\* C21: getCurrentDay returns "Thur" when the weekday in Asia/Kolkata is Thursday,
\* never "Thu", and on the other six weekdays the three-letter name Mon, Tue, Wed,
\* Fri, Sat or Sun of the weekday in Asia/Kolkata.
C21_DayName ==
    dayPc = "day" =>
        /\ currentDay # Thu
        /\ currentDay = <<Sun, Mon, Tue, Wed, Thur, Fri, Sat>>[KolkataWeekday(instant) + 1]
        /\ (currentDay = Thur) = (KolkataWeekday(instant) = 4)
        /\ currentDay # Thur => Len(currentDay) = 3

\* getCurrentDay has returned "Thur" at an instant that is Wednesday evening in UTC
C21_Witness ==
    /\ dayPc = "day"
    /\ instant.weekday = 3
    /\ instant.minutes = 1110
    /\ currentDay = Thur

-----------------------------------------------------------------------------
(* Properties of findFreeRooms calls in flight together *)

\* C22: findFreeRooms calls whose steps interleave in any order on one shared list
\* leave the list as every caller handed it over, and each returns what
\* findFreeRooms returns for its own arguments when it runs alone; calls with equal
\* arguments return equal lists.
C22_Concurrent ==
    /\ \A c \in DOMAIN calls :
           /\ calls[c].pc # "idle" => schedules = calls[c].given
           /\ calls[c].pc = "returned" =>
                  calls[c].freeRooms =
                      findFreeRooms(calls[c].given, calls[c].day, calls[c].targetTime,
                                    calls[c].minDuration)
    /\ \A c, e \in DOMAIN calls :
           ( /\ calls[c].pc = "returned" /\ calls[e].pc = "returned"
             /\ calls[c].day = calls[e].day
             /\ calls[c].targetTime = calls[e].targetTime
             /\ calls[c].minDuration = calls[e].minDuration )
           => calls[c].freeRooms = calls[e].freeRooms

\* two calls in flight on the list whose two slots merge: one has returned the
\* free slot from 10:30, the other has run its forEach for the target 10:30
C22_Witness ==
    /\ Len(calls) >= 2
    /\ schedules = <<RoomSchedule(R402, Mon, <<TimeSlot(T0800, T0930)>>),
                     RoomSchedule(R402, Mon, <<TimeSlot(T0900, T1030)>>)>>
    /\ calls[1].pc = "returned"
    /\ calls[1].targetTime = {}
    /\ calls[1].freeRooms = <<FreeRoom(R402, Mon, TimeSlot(T1030, T1930), 540)>>
    /\ calls[2].pc = "collected"
    /\ calls[2].targetTime = {T1030}
    /\ calls[2].freeRooms = calls[1].freeRooms

-----------------------------------------------------------------------------
(* Totality of findFreeRooms *)

\* a list of records with room, day and occupied whose slots are HH:mm strings
WellFormedList(list) ==
    \A i \in 1..Len(list) :
        /\ DOMAIN list[i] = {"room", "day", "occupied"}
        /\ \A j \in 1..Len(list[i].occupied) :
               /\ DOMAIN list[i].occupied[j] = {"start", "end"}
               /\ ~Malformed(list[i].occupied[j].start)
               /\ ~Malformed(list[i].occupied[j].end)

\* C23: for every list of records whose slots are valid HH:mm strings, every day
\* (with data or without), every valid targetTime given or not and every
\* minDuration of 0 or more given or not, findFreeRooms returns a list, empty or
\* not, of well-formed entries and is not left by an error.
C23_Total ==
    ( /\ roomsPc \in {"direct", "threw"}
      /\ WellFormedList(passed)
      /\ \A t \in targetTime : ~Malformed(t)
      /\ \A md \in minDuration : md >= 0 )
    => /\ roomsPc = "direct"
       /\ \A i \in 1..Len(freeRooms) :
              /\ DOMAIN freeRooms[i] = {"room", "day", "freeFrom", "freeTill", "duration"}
              /\ freeRooms[i].day = day
              /\ freeRooms[i].duration > 0

\* a Sunday query after the window on a list with Monday and Tuesday records: the
\* call has returned the empty list
C23_Witness ==
    /\ roomsPc = "direct"
    /\ passed = <<RoomSchedule(R402, Mon, OccupiedB), RoomSchedule(R999, Tue, OccupiedY)>>
    /\ day = Sun
    /\ targetTime = {T2000}
    /\ minDuration = {0}
    /\ freeRooms = <<>>

-----------------------------------------------------------------------------
(* Protection of the admin routes *)

\* Supabase is configured: URL and key are set and the URL is not the placeholder
Configured(e) ==
    /\ \E u \in e.NEXT_PUBLIC_SUPABASE_URL : u # "" /\ u # "your_supabase_url"
    /\ \E k \in e.NEXT_PUBLIC_SUPABASE_ANON_KEY : k # ""

\* the allowed domain: ADMIN_EMAIL_DOMAIN, adypu.edu.in when it is unset or empty
DomainOf(e) ==
    IF \E dom \in e.ADMIN_EMAIL_DOMAIN : Len(dom) > 0
    THEN CHOOSE dom \in e.ADMIN_EMAIL_DOMAIN : TRUE
    ELSE <<"a", "d", "y", "p", "u", ".", "e", "d", "u", ".", "i", "n">>

\* a user is signed in whose email is something, an @ and the domain
Authorised(e, sess) ==
    \E u \in sess : \E m \in u.email :
        LET dom == DomainOf(e)
            at  == Len(m) - Len(dom)
        IN  /\ at >= 1
            /\ m[at] = "@"
            /\ \A i \in 1..Len(dom) : m[at + i] = dom[i]

\* C24: the middleware lets /admin/login through always, and any other /admin path
\* only when Supabase is configured and a user is signed in whose email ends with
\* @ and the allowed domain; otherwise it redirects to /admin/login, with
\* error=not_configured when Supabase is not configured, and with
\* error=unauthorized and the user signed out when the email does not match.
C24_Protected ==
    [][ authPc' = "done" =>
          LET pass == Configured(env) /\ Authorised(env, session)
          IN  /\ request.pathname = LoginPath => response'.kind = "next" /\ session' = session
              /\ request.pathname # LoginPath =>
                     /\ (response'.kind = "next") = pass
                     /\ pass => session' = session
                     /\ ~pass => /\ response'.kind = "redirect"
                                 /\ response'.pathname = LoginPath
                     /\ ~Configured(env) =>
                            response'.error = {"not_configured"} /\ session' = session
                     /\ (Configured(env) /\ session = {}) => response'.error = request.error
                     /\ (Configured(env) /\ session # {} /\ ~pass) =>
                            response'.error = {"unauthorized"} /\ session' = {}
      ]_vars

\* /admin/pdf asked for by a user of another domain: redirected with
\* error=unauthorized and signed out
C24_Witness ==
    /\ authPc = "done"
    /\ Configured(env)
    /\ env.ADMIN_EMAIL_DOMAIN = {}
    /\ request = [pathname |-> AdminPath \o <<"/", "p", "d", "f">>, error |-> {}]
    /\ response = [kind |-> "redirect", pathname |-> LoginPath, error |-> {"unauthorized"}]
    /\ session = {}

-----------------------------------------------------------------------------
(* The merge in the order clip, sort, merge *)

\* step 1: every slot clipped to the window, in minutes, empty and inverted ones
\* discarded
ClippedKept(slots) ==
    LET clip(sl) == [start |-> Max(timeToMinutes(sl.start), WindowStart),
                     end   |-> Min(timeToMinutes(sl.end), WindowEnd)]
        all      == [i \in 1..Len(slots) |-> clip(slots[i])]
    IN  SelectSeq(all, LAMBDA c : c.start < c.end)

\* step 2: sorted by start ascending, slots of equal start in the order they had
SortedAscending(iv) ==
    LET n    == Len(iv)
        rank == [i \in 1..n |->
                    Cardinality({j \in 1..n : iv[j].start < iv[i].start
                                               \/ (iv[j].start = iv[i].start /\ j < i)})]
    IN  [p \in 1..n |-> iv[CHOOSE i \in 1..n : rank[i] = p - 1]]

\* step 3: the linear scan with a running slot
RECURSIVE ScanMerged(_)
ScanMerged(iv) ==
    IF iv = <<>> THEN <<>>
    ELSE LET done == ScanMerged(SubSeq(iv, 1, Len(iv) - 1))
             next == iv[Len(iv)]
         IN  IF done # <<>> /\ next.start <= done[Len(done)].end
             THEN [done EXCEPT ![Len(done)].end = Max(done[Len(done)].end, next.end)]
             ELSE Append(done, next)

\* C25: sorting by the raw start and then clipping, discarding and merging in one
\* scan, as findFreeSlots does, gives the same merged occupied list as clipping
\* and discarding first, sorting by start second and merging third.
C25_SameAsClipSortMerge ==
    slotsPc = "done" =>
        LET expected == ScanMerged(SortedAscending(ClippedKept(occupiedSlots)))
        IN  InMinutes(mergedOccupied)
                = [i \in 1..Len(expected) |-> <<expected[i].start, expected[i].end>>]

\* a list whose order by raw start is not its order after the clip: a slot wholly
\* before the window stands between two slots that merge across the window start
C25_Witness ==
    /\ slotsPc = "done"
    /\ occupiedSlots = <<TimeSlot(T1000, T1100), TimeSlot(T0800, T0900),
                         TimeSlot(T0800, T1000)>>
    /\ mergedOccupied = <<TimeSlot(T0900, T1100)>>

-----------------------------------------------------------------------------
(* Properties of getCompleteSchedules *)

\* the (room, day) pairs of a list and of the roster on the days of DAYS
PairsOf(list) ==
    {<<list[i].room, list[i].day>> : i \in 1..Len(list)}
        \cup {<<ALL_ROOMS[r], DAYS[k]>> : r \in 1..Len(ALL_ROOMS), k \in 1..Len(DAYS)}

\* C26: getCompleteSchedules returns exactly one record per distinct (room, day)
\* pair, for the pairs of the input and for the roster rooms on Mon, Tue, Wed and
\* Thur; the record of a pair has the occupied slots of all input records of that
\* pair, concatenated in input order, and none of another pair; the records of a
\* pair that is missing from the input are empty.
C26_OnePerPair ==
    roomsPc = "completed" =>
        /\ Len(passed) = Cardinality(PairsOf(schedules))
        /\ \A p \in PairsOf(schedules) :
               \E k \in 1..Len(passed) :
                   /\ passed[k].room = p[1]
                   /\ passed[k].day = p[2]
                   /\ passed[k].occupied = OccupiedFor(schedules, p[1], p[2])
                   /\ \A j \in 1..Len(passed) :
                          (passed[j].room = p[1] /\ passed[j].day = p[2]) => j = k

-----------------------------------------------------------------------------
(* Completeness of the filters *)

\* the free slot passes both filters: it contains the target when one is given, and
\* it lasts the minimum duration when one other than 0 is given
PassesFilters(slot, target, minDur) ==
    LET start == timeToMinutes(slot.start)
        end   == timeToMinutes(slot.end)
    IN  /\ \A t \in target : start <= timeToMinutes(t) /\ timeToMinutes(t) < end
        /\ \A md \in minDur : md = 0 \/ end - start >= md

\* the (room, free slot) pairs of the list on the day that pass both filters
PassingPairs(list, d, target, minDur) ==
    {<<room, slot>> \in
        UNION {{<<r, FreeOf(list, r, d)[k]>> : k \in 1..Len(FreeOf(list, r, d))} :
                   r \in RoomsOf(list)} :
        PassesFilters(slot, target, minDur)}

\* C27: the result of findFreeRooms holds every (room, free slot) pair of the rooms
\* of the list on the day that passes both filters, each once, and nothing else;
\* with minDuration = 0 it is the result without minDuration.
C27_FilterComplete ==
    roomsPc = "direct" =>
        LET passing == PassingPairs(passed, day, targetTime, minDuration)
        IN  /\ Len(freeRooms) = Cardinality(passing)
            /\ \A p \in passing :
                   \E i \in 1..Len(freeRooms) :
                       /\ freeRooms[i].room = p[1]
                       /\ freeRooms[i].freeFrom = p[2].start
                       /\ freeRooms[i].freeTill = p[2].end
            /\ minDuration = {0} => freeRooms = findFreeRooms(passed, day, targetTime, {})

\* two rooms on Tuesday with minDuration 0: both free slots of room 999 and the
\* whole window of room 402 are returned, the free half hour included
C27_Witness ==
    /\ roomsPc = "direct"
    /\ passed = <<RoomSchedule(R402, Mon, OccupiedB), RoomSchedule(R999, Tue, OccupiedY)>>
    /\ day = Tue
    /\ targetTime = {}
    /\ minDuration = {0}
    /\ freeRooms = <<FreeRoom(R402, Tue, TimeSlot(T0900, T1930), 630),
                     FreeRoom(R999, Tue, TimeSlot(T1430, T1930), 300),
                     FreeRoom(R999, Tue, TimeSlot(T0900, T0930), 30)>>

-----------------------------------------------------------------------------
(* Results per room *)

\* C28: when a valid targetTime is given, no room appears twice in the result of
\* findFreeRooms; without targetTime and minDuration a room appears once for each
\* of its free slots.
C28_OncePerRoom ==
    roomsPc = "direct" =>
        /\ (targetTime # {} /\ \A t \in targetTime : ~Malformed(t)) =>
               \A i, j \in 1..Len(freeRooms) :
                   freeRooms[i].room = freeRooms[j].room => i = j
        /\ (targetTime = {} /\ minDuration = {}) =>
               \A room \in RoomsOf(passed) :
                   Cardinality(ResultsFor(room)) = Len(FreeOf(passed, room, day))

\* a room with two free slots asked for at 09:30, the first minute of the first
\* one: it is returned once
C28_Witness ==
    /\ roomsPc = "direct"
    /\ passed = <<RoomSchedule(R402, Mon, OccupiedB)>>
    /\ day = Mon
    /\ targetTime = {T0930}
    /\ minDuration = {}
    /\ Len(FreeOf(passed, R402, Mon)) = 2
    /\ freeRooms = <<FreeRoom(R402, Mon, TimeSlot(T0930, T1430), 300)>>

-----------------------------------------------------------------------------
(* GET /api/rooms under a cache clear *)

\* C29: a reply of GET with meta.hasData = true was computed from a non-empty
\* cached schedule, also when the cache is cleared between the hasScheduleData
\* check and the cache load; and when the cache was empty at the check the reply
\* is success with data = [] and hasData = false.
C29_HasDataMeansData ==
    roomsPc = "route" =>
        /\ reply.hasData => Len(loaded) > 0
        /\ ~hasData => reply = [success |-> TRUE, data |-> <<>>, hasData |-> FALSE]

-----------------------------------------------------------------------------
(* Imports in flight together *)

\* every occupied slot of the entries lies within an occupied slot that the cache
\* holds for the same room and day
Holds(cache, entries) ==
    \A i \in 1..Len(entries) : \A j \in 1..Len(entries[i].occupied) :
        \E k \in 1..Len(cache) :
            /\ cache[k].room = entries[i].room
            /\ cache[k].day = entries[i].day
            /\ \E n \in 1..Len(cache[k].occupied) :
                   /\ timeToMinutes(cache[k].occupied[n].start)
                          <= timeToMinutes(entries[i].occupied[j].start)
                   /\ timeToMinutes(entries[i].occupied[j].end)
                          <= timeToMinutes(cache[k].occupied[n].end)

\* C30: when the importScheduleData(entries, true) calls on one cache file have all
\* completed, the cache holds the occupied slots of every call and the slots that
\* were cached when a call loaded the cache.
C30_NoImportLost ==
    (\A c \in DOMAIN imports : imports[c].pc = "saved") =>
        \A c \in DOMAIN imports :
            /\ Holds(schedules, imports[c].schedules)
            /\ Holds(schedules, imports[c].existing)

====
